---------------------------- MODULE Spec2Model ----------------------------
(***************************************************************************)
(* State-machine model of blockchain/contracts/DeepfakeVerification.sol.   *)
(*                                                                         *)
(* Every external function of the contract is one action.  A transaction  *)
(* either runs to completion or reverts; a revert restores the storage    *)
(* and the event log, and the caller sees only that it reverted and why.  *)
(* For every function F, the operator FRevert gives the reason of the     *)
(* first failing require ("" when the call goes through), and the action  *)
(* F reverts exactly when FRevert is not "".  View functions are          *)
(* operators over the current state.                                      *)
(*                                                                         *)
(* Cryptography is modelled symbolically: keccak256 over abi.encodePacked *)
(* of fixed-width fields is injective (the tuple of the fields), and      *)
(* ecrecover returns the signing account only for the digest that was     *)
(* signed, with the recovery id the signature was made with.              *)
(*                                                                         *)
(* The module also holds the state machine of the upload widget,          *)
(* frontend/src/components/ImageUpload.jsx: the component's state, one    *)
(* action per event handler, and one for the onload callback of each      *)
(* FileReader in flight.                                                   *)
(***************************************************************************)
EXTENDS Integers, Sequences, FiniteSets, TLC

\* ------------------------------------------------------------------ bounds
NumAccounts == 2
MaxTime == 2
MaxEvents == 4    \* events in the log
ShortLog == 3     \* events in the log under the samplings with many inputs
MaxReaders == 2   \* FileReaders in flight in the upload widget

\* ------------------------------------------------------- program constants
Zero == 0                 \* address(0), bytes32(0)
MaxConfidence == 10000    \* require(_confidence <= 10000)
SigLength == 65           \* require(_signature.length == 65)
VLow == 27                \* if (v < 27) v += 27; require(v == 27 || v == 28)
VHigh == 28
ByteMax == 255
Stray == -1               \* an address ecrecover yields that nobody holds a key for

\* -------------------------------------------------------------- input sets
Account == 1..NumAccounts          \* externally owned accounts (each holds a key)
Address == Account \cup {Zero}
DidString == {"", "did:deepfake:a", "did:deepfake:b"}
KeyString == {"", "k1", "k2"}
Bytes32 == {Zero, 1, 2}

VARIABLES
    didDocuments,         \* mapping(address => DIDDocument)
    didToAddress,         \* mapping(string => address)
    verificationResults,  \* mapping(bytes32 => VerificationResult)
    zkProofs,             \* mapping(bytes32 => ZKProof)
    authorizedIssuers,    \* mapping(address => bool)
    owner,                \* address
    oracleSigner,         \* address
    totalDIDs,            \* uint256
    totalVerifications,   \* uint256
    events,               \* the emitted events, oldest first
    now,                  \* block.timestamp
    reverted,             \* whether the latest transaction reverted
    selectedFile,         \* ImageUpload: useState(null)
    preview,              \* ImageUpload: useState(null)
    dragActive,           \* ImageUpload: useState(false)
    readers,              \* ImageUpload: the files of the FileReaders in flight
    uploaded              \* ImageUpload: the file handed to onUpload last

storage == <<didDocuments, didToAddress, verificationResults, zkProofs,
             authorizedIssuers, owner, oracleSigner, totalDIDs, totalVerifications>>
vars == <<didDocuments, didToAddress, verificationResults, zkProofs,
          authorizedIssuers, owner, oracleSigner, totalDIDs, totalVerifications,
          events, now, reverted,
          selectedFile, preview, dragActive, readers, uploaded>>
widget == <<selectedFile, preview, dragActive, readers, uploaded>>

\* ------------------------------------------------------------ default values
NoDocument == [owner |-> Zero, did |-> "", publicKeyBase58 |-> "",
               isActive |-> FALSE, createdAt |-> 0, updatedAt |-> 0]
NoResult == [imageHash |-> Zero, subjectDid |-> "", issuerDid |-> "",
             isReal |-> FALSE, confidence |-> 0, timestamp |-> 0,
             credentialHash |-> Zero]
NoProof == [proofHash |-> Zero, publicInputHash |-> Zero, isValid |-> FALSE,
            timestamp |-> 0]

\* ------------------------------------------------------------- transactions
\* A revert: storage and log as before the call, the reason reported.
Revert(reason) ==
    /\ reason # ""
    /\ reverted' = TRUE
    /\ UNCHANGED <<storage, events, now>>

\* emit: one more event in the log
Emit(e) == events' = Append(events, e)

\* The log of the model is finite: an emitting call is taken only while it has room.
LogHasRoom == Len(events) < MaxEvents

\* constructor(address _oracleSigner), deployed by any account
Init ==
    /\ owner \in Account
    /\ oracleSigner \in Address
    /\ authorizedIssuers = [a \in Address |-> a = owner]
    /\ didDocuments = [a \in Account |-> NoDocument]
    /\ didToAddress = [d \in DidString |-> Zero]
    /\ verificationResults = [h \in Bytes32 |-> NoResult]
    /\ zkProofs = [h \in Bytes32 |-> NoProof]
    /\ totalDIDs = 0
    /\ totalVerifications = 0
    /\ events = <<>>
    /\ now = 1
    /\ reverted = FALSE

\* ---------------------------------------------------------------- modifiers
\* Each gives the reason its require fails with, "" when it passes.
\* onlyOwner that lets every authorized issuer through
onlyOwner_AnyIssuer(sender) ==
    IF ~authorizedIssuers[sender] THEN "Only owner can call this function" ELSE ""

onlyOwner(sender) ==
    IF sender # owner THEN "Only owner can call this function" ELSE ""

onlyAuthorizedIssuer(sender) ==
    IF ~authorizedIssuers[sender] THEN "Not an authorized issuer" ELSE ""

didExists(_owner) ==
    IF ~didDocuments[_owner].isActive THEN "DID does not exist or is deactivated" ELSE ""

\* ----------------------------------------------------------- DID management
\* registerDID without the "DID already taken" require
registerDIDRevert_NoTakenCheck(sender, _did, _publicKeyBase58) ==
    IF didDocuments[sender].isActive THEN "DID already registered"
    ELSE IF _did = "" THEN "DID cannot be empty"
    ELSE IF _publicKeyBase58 = "" THEN "Public key cannot be empty"
    ELSE ""

\* registerDID without the "DID already registered" require
registerDIDRevert_NoActiveCheck(sender, _did, _publicKeyBase58) ==
    IF didToAddress[_did] # Zero THEN "DID already taken"
    ELSE IF _did = "" THEN "DID cannot be empty"
    ELSE IF _publicKeyBase58 = "" THEN "Public key cannot be empty"
    ELSE ""

\* registerDID that refuses an account that has had a document before
registerDIDRevert_OnceOnly(sender, _did, _publicKeyBase58) ==
    IF didDocuments[sender].createdAt > 0 THEN "DID already exists for this address"
    ELSE IF didToAddress[_did] # Zero THEN "DID already taken"
    ELSE IF _did = "" THEN "DID cannot be empty"
    ELSE IF _publicKeyBase58 = "" THEN "Public key cannot be empty"
    ELSE ""

registerDIDRevert(sender, _did, _publicKeyBase58) ==
    IF didDocuments[sender].isActive THEN "DID already registered"
    ELSE IF didToAddress[_did] # Zero THEN "DID already taken"
    ELSE IF _did = "" THEN "DID cannot be empty"
    ELSE IF _publicKeyBase58 = "" THEN "Public key cannot be empty"
    ELSE ""

\* registerDID that counts the call before its requires and returns on a failed
\* one instead of reverting
registerDID_EarlyReturn(sender, _did, _publicKeyBase58) ==
    LET reason == registerDIDRevert(sender, _did, _publicKeyBase58) IN
    IF reason # ""
    THEN /\ LogHasRoom
         /\ totalDIDs' = totalDIDs + 1
         /\ reverted' = TRUE
         /\ UNCHANGED <<didDocuments, didToAddress, verificationResults, zkProofs,
                        authorizedIssuers, owner, oracleSigner, totalVerifications,
                        events, now>>
    ELSE /\ LogHasRoom
         /\ didDocuments' = [didDocuments EXCEPT ![sender] =
                [owner |-> sender, did |-> _did,
                 publicKeyBase58 |-> _publicKeyBase58, isActive |-> TRUE,
                 createdAt |-> now, updatedAt |-> now]]
         /\ didToAddress' = [didToAddress EXCEPT ![_did] = sender]
         /\ totalDIDs' = totalDIDs + 1
         /\ Emit([name |-> "DIDRegistered", owner |-> sender, did |-> _did,
                  timestamp |-> now])
         /\ reverted' = FALSE
         /\ UNCHANGED <<verificationResults, zkProofs, authorizedIssuers, owner,
                        oracleSigner, totalVerifications, now>>

\* registerDID that leaves the reverse index alone
registerDID_NoIndex(sender, _did, _publicKeyBase58) ==
    LET reason == registerDIDRevert(sender, _did, _publicKeyBase58) IN
    IF reason # "" THEN Revert(reason)
    ELSE /\ LogHasRoom
         /\ didDocuments' = [didDocuments EXCEPT ![sender] =
                [owner |-> sender, did |-> _did,
                 publicKeyBase58 |-> _publicKeyBase58, isActive |-> TRUE,
                 createdAt |-> now, updatedAt |-> now]]
         /\ totalDIDs' = totalDIDs + 1
         /\ Emit([name |-> "DIDRegistered", owner |-> sender, did |-> _did,
                  timestamp |-> now])
         /\ reverted' = FALSE
         /\ UNCHANGED <<didToAddress, verificationResults, zkProofs,
                        authorizedIssuers, owner, oracleSigner, totalVerifications,
                        now>>

\* registerDID that keeps the createdAt of the caller's earlier document
registerDID_StaleCreatedAt(sender, _did, _publicKeyBase58) ==
    LET reason == registerDIDRevert(sender, _did, _publicKeyBase58) IN
    IF reason # "" THEN Revert(reason)
    ELSE /\ LogHasRoom
         /\ didDocuments' = [didDocuments EXCEPT ![sender] =
                [owner |-> sender, did |-> _did,
                 publicKeyBase58 |-> _publicKeyBase58, isActive |-> TRUE,
                 createdAt |-> IF didDocuments[sender].createdAt > 0
                                   THEN didDocuments[sender].createdAt ELSE now,
                 updatedAt |-> now]]
         /\ didToAddress' = [didToAddress EXCEPT ![_did] = sender]
         /\ totalDIDs' = totalDIDs + 1
         /\ Emit([name |-> "DIDRegistered", owner |-> sender, did |-> _did,
                  timestamp |-> now])
         /\ reverted' = FALSE
         /\ UNCHANGED <<verificationResults, zkProofs, authorizedIssuers, owner,
                        oracleSigner, totalVerifications, now>>

registerDID(sender, _did, _publicKeyBase58) ==
    LET reason == registerDIDRevert(sender, _did, _publicKeyBase58) IN
    IF reason # "" THEN Revert(reason)
    ELSE /\ LogHasRoom
         /\ didDocuments' = [didDocuments EXCEPT ![sender] =
                [owner |-> sender, did |-> _did,
                 publicKeyBase58 |-> _publicKeyBase58, isActive |-> TRUE,
                 createdAt |-> now, updatedAt |-> now]]
         /\ didToAddress' = [didToAddress EXCEPT ![_did] = sender]
         /\ totalDIDs' = totalDIDs + 1
         /\ Emit([name |-> "DIDRegistered", owner |-> sender, did |-> _did,
                  timestamp |-> now])
         /\ reverted' = FALSE
         /\ UNCHANGED <<verificationResults, zkProofs, authorizedIssuers, owner,
                        oracleSigner, totalVerifications, now>>

updateDIDPublicKeyRevert(sender, _newPublicKeyBase58) ==
    IF didExists(sender) # "" THEN didExists(sender)
    ELSE IF _newPublicKeyBase58 = "" THEN "Public key cannot be empty"
    ELSE ""

\* updateDIDPublicKey that leaves updatedAt as it was
updateDIDPublicKey_NoTouch(sender, _newPublicKeyBase58) ==
    LET reason == updateDIDPublicKeyRevert(sender, _newPublicKeyBase58) IN
    IF reason # "" THEN Revert(reason)
    ELSE /\ LogHasRoom
         /\ didDocuments' = [didDocuments EXCEPT
                ![sender].publicKeyBase58 = _newPublicKeyBase58]
         /\ Emit([name |-> "DIDUpdated", owner |-> sender,
                  did |-> didDocuments[sender].did, timestamp |-> now])
         /\ reverted' = FALSE
         /\ UNCHANGED <<didToAddress, verificationResults, zkProofs,
                        authorizedIssuers, owner, oracleSigner, totalDIDs,
                        totalVerifications, now>>

\* updateDIDPublicKey that writes the document of the contract's owner
updateDIDPublicKey_OfOwner(sender, _newPublicKeyBase58) ==
    LET reason == updateDIDPublicKeyRevert(sender, _newPublicKeyBase58) IN
    IF reason # "" THEN Revert(reason)
    ELSE /\ LogHasRoom
         /\ didDocuments' = [didDocuments EXCEPT
                ![owner].publicKeyBase58 = _newPublicKeyBase58,
                ![owner].updatedAt = now]
         /\ Emit([name |-> "DIDUpdated", owner |-> sender,
                  did |-> didDocuments[sender].did, timestamp |-> now])
         /\ reverted' = FALSE
         /\ UNCHANGED <<didToAddress, verificationResults, zkProofs,
                        authorizedIssuers, owner, oracleSigner, totalDIDs,
                        totalVerifications, now>>

updateDIDPublicKey(sender, _newPublicKeyBase58) ==
    LET reason == updateDIDPublicKeyRevert(sender, _newPublicKeyBase58) IN
    IF reason # "" THEN Revert(reason)
    ELSE /\ LogHasRoom
         /\ didDocuments' = [didDocuments EXCEPT
                ![sender].publicKeyBase58 = _newPublicKeyBase58,
                ![sender].updatedAt = now]
         /\ Emit([name |-> "DIDUpdated", owner |-> sender,
                  did |-> didDocuments[sender].did, timestamp |-> now])
         /\ reverted' = FALSE
         /\ UNCHANGED <<didToAddress, verificationResults, zkProofs,
                        authorizedIssuers, owner, oracleSigner, totalDIDs,
                        totalVerifications, now>>

deactivateDIDRevert(sender) == didExists(sender)

\* deactivateDID that takes the DID off the counter
deactivateDID_Uncount(sender) ==
    LET reason == deactivateDIDRevert(sender)
        did == didDocuments[sender].did
    IN
    IF reason # "" THEN Revert(reason)
    ELSE /\ LogHasRoom
         /\ didDocuments' = [didDocuments EXCEPT
                ![sender].isActive = FALSE,
                ![sender].updatedAt = now]
         /\ didToAddress' = [didToAddress EXCEPT ![did] = Zero]
         /\ totalDIDs' = totalDIDs - 1
         /\ Emit([name |-> "DIDDeactivated", owner |-> sender, did |-> did,
                  timestamp |-> now])
         /\ reverted' = FALSE
         /\ UNCHANGED <<verificationResults, zkProofs, authorizedIssuers, owner,
                        oracleSigner, totalVerifications, now>>

\* deactivateDID that keeps the reverse index entry
deactivateDID_KeepIndex(sender) ==
    LET reason == deactivateDIDRevert(sender)
        did == didDocuments[sender].did
    IN
    IF reason # "" THEN Revert(reason)
    ELSE /\ LogHasRoom
         /\ didDocuments' = [didDocuments EXCEPT
                ![sender].isActive = FALSE,
                ![sender].updatedAt = now]
         /\ Emit([name |-> "DIDDeactivated", owner |-> sender, did |-> did,
                  timestamp |-> now])
         /\ reverted' = FALSE
         /\ UNCHANGED <<didToAddress, verificationResults, zkProofs,
                        authorizedIssuers, owner, oracleSigner, totalDIDs,
                        totalVerifications, now>>

\* deactivateDID that also drops the records issued under the DID
deactivateDID_DropRecords(sender) ==
    LET reason == deactivateDIDRevert(sender)
        did == didDocuments[sender].did
    IN
    IF reason # "" THEN Revert(reason)
    ELSE /\ LogHasRoom
         /\ didDocuments' = [didDocuments EXCEPT
                ![sender].isActive = FALSE,
                ![sender].updatedAt = now]
         /\ didToAddress' = [didToAddress EXCEPT ![did] = Zero]
         /\ verificationResults' = [h \in Bytes32 |->
                IF verificationResults[h].issuerDid = did THEN NoResult
                ELSE verificationResults[h]]
         /\ Emit([name |-> "DIDDeactivated", owner |-> sender, did |-> did,
                  timestamp |-> now])
         /\ reverted' = FALSE
         /\ UNCHANGED <<zkProofs, authorizedIssuers, owner, oracleSigner, totalDIDs,
                        totalVerifications, now>>

\* deactivateDID that emits no event
deactivateDID_Silent(sender) ==
    LET reason == deactivateDIDRevert(sender)
        did == didDocuments[sender].did
    IN
    IF reason # "" THEN Revert(reason)
    ELSE /\ LogHasRoom
         /\ didDocuments' = [didDocuments EXCEPT
                ![sender].isActive = FALSE,
                ![sender].updatedAt = now]
         /\ didToAddress' = [didToAddress EXCEPT ![did] = Zero]
         /\ reverted' = FALSE
         /\ UNCHANGED <<verificationResults, zkProofs, authorizedIssuers, owner,
                        oracleSigner, totalDIDs, totalVerifications, events, now>>

\* deactivateDID that clears updatedAt
deactivateDID_ClearStamp(sender) ==
    LET reason == deactivateDIDRevert(sender)
        did == didDocuments[sender].did
    IN
    IF reason # "" THEN Revert(reason)
    ELSE /\ LogHasRoom
         /\ didDocuments' = [didDocuments EXCEPT
                ![sender].isActive = FALSE,
                ![sender].updatedAt = 0]
         /\ didToAddress' = [didToAddress EXCEPT ![did] = Zero]
         /\ Emit([name |-> "DIDDeactivated", owner |-> sender, did |-> did,
                  timestamp |-> now])
         /\ reverted' = FALSE
         /\ UNCHANGED <<verificationResults, zkProofs, authorizedIssuers, owner,
                        oracleSigner, totalDIDs, totalVerifications, now>>

deactivateDID(sender) ==
    LET reason == deactivateDIDRevert(sender)
        did == didDocuments[sender].did
    IN
    IF reason # "" THEN Revert(reason)
    ELSE /\ LogHasRoom
         /\ didDocuments' = [didDocuments EXCEPT
                ![sender].isActive = FALSE,
                ![sender].updatedAt = now]
         /\ didToAddress' = [didToAddress EXCEPT ![did] = Zero]
         /\ Emit([name |-> "DIDDeactivated", owner |-> sender, did |-> did,
                  timestamp |-> now])
         /\ reverted' = FALSE
         /\ UNCHANGED <<verificationResults, zkProofs, authorizedIssuers, owner,
                        oracleSigner, totalDIDs, totalVerifications, now>>

\* resolveDID (view): the reason it reverts with, and the document it returns
resolveDIDRevert(_did) ==
    LET didOwner == didToAddress[_did] IN
    IF didOwner = Zero THEN "DID not found"
    ELSE IF ~didDocuments[didOwner].isActive THEN "DID is deactivated"
    ELSE ""

\* resolveDID that reads the document of the contract's owner
resolveDID_OfOwner(_did) == didDocuments[owner]

resolveDID(_did) == didDocuments[didToAddress[_did]]

\* ------------------------------------------------------- signature recovery
\* keccak256(abi.encodePacked(_imageHash, _isReal, _confidence)): the fields are
\* of fixed width, so distinct tuples have distinct digests.
\* a digest that leaves the confidence out
messageHash_NoConfidence(_imageHash, _isReal, _confidence) ==
    <<_imageHash, _isReal>>

messageHash(_imageHash, _isReal, _confidence) ==
    <<_imageHash, _isReal, _confidence>>

\* keccak256(abi.encodePacked("\x19Ethereum Signed Message:\n32", messageHash))
EthPrefix == "\\x19Ethereum Signed Message:\\n32"

ethSignedHash(_imageHash, _isReal, _confidence) ==
    <<EthPrefix, messageHash(_imageHash, _isReal, _confidence)>>

\* r || s of a signature: made by `key` over `digest`, or bytes that are no
\* curve point (r = 0), for which ecrecover yields address(0).
NoPoint == [key |-> Zero, digest |-> <<>>]

\* What a holder of `key` produces for a verdict (eth_sign; recovery id 27).
Sign(key, _imageHash, _isReal, _confidence) ==
    [length |-> SigLength,
     rs |-> [key |-> key, digest |-> ethSignedHash(_imageHash, _isReal, _confidence)],
     v |-> VLow]

\* the precompile: the signer for the signed digest and the recovery id the
\* signature was made with, address(0) for an invalid point, and otherwise the
\* address of some other public key.
ecrecover(hash, v, rs) ==
    IF rs = NoPoint THEN Zero
    ELSE IF rs.digest = hash /\ v = VLow THEN rs.key
    ELSE Stray

\* recoverSigner without the v += 27 for v < 27
recoverSigner_NoNormalise(_ethSignedHash, _signature) ==
    LET v == _signature.v IN
    IF _signature.length # SigLength
        THEN [reason |-> "Invalid signature length", signer |-> Zero]
    ELSE IF ~(v = VLow \/ v = VHigh)
        THEN [reason |-> "Invalid signature v value", signer |-> Zero]
    ELSE [reason |-> "", signer |-> ecrecover(_ethSignedHash, v, _signature.rs)]

\* recoverSigner: [reason, signer].  v is a uint8 and v += 27 is checked
\* arithmetic: a sum above ByteMax panics.
recoverSigner(_ethSignedHash, _signature) ==
    LET v == IF _signature.v < VLow THEN _signature.v + VLow ELSE _signature.v IN
    IF _signature.length # SigLength
        THEN [reason |-> "Invalid signature length", signer |-> Zero]
    ELSE IF v > ByteMax
        THEN [reason |-> "Panic(0x11)", signer |-> Zero]
    ELSE IF ~(v = VLow \/ v = VHigh)
        THEN [reason |-> "Invalid signature v value", signer |-> Zero]
    ELSE [reason |-> "", signer |-> ecrecover(_ethSignedHash, v, _signature.rs)]

\* ------------------------------------------------- verification management
\* recordVerification that compares the recovered signer with the owner
recordVerificationRevert_OwnerAsOracle(sender, _imageHash, _isReal, _confidence, _signature) ==
    IF didExists(sender) # "" THEN didExists(sender)
    ELSE IF _imageHash = Zero THEN "Image hash cannot be empty"
    ELSE IF ~(_confidence <= MaxConfidence) THEN "Confidence must be <= 10000"
    ELSE LET recovered == recoverSigner(
                 ethSignedHash(_imageHash, _isReal, _confidence), _signature)
         IN  IF recovered.reason # "" THEN recovered.reason
             ELSE IF recovered.signer # owner THEN "Invalid oracle signature"
             ELSE ""

\* recordVerification that accepts the signature of any key holder
recordVerificationRevert_AnySigner(sender, _imageHash, _isReal, _confidence, _signature) ==
    IF didExists(sender) # "" THEN didExists(sender)
    ELSE IF _imageHash = Zero THEN "Image hash cannot be empty"
    ELSE IF ~(_confidence <= MaxConfidence) THEN "Confidence must be <= 10000"
    ELSE LET recovered == recoverSigner(
                 ethSignedHash(_imageHash, _isReal, _confidence), _signature)
         IN  IF recovered.reason # "" THEN recovered.reason
             ELSE IF recovered.signer \notin Account THEN "Invalid oracle signature"
             ELSE ""

\* recordVerification with confidence < 10000 for confidence <= 10000
recordVerificationRevert_StrictBound(sender, _imageHash, _isReal, _confidence, _signature) ==
    IF didExists(sender) # "" THEN didExists(sender)
    ELSE IF _imageHash = Zero THEN "Image hash cannot be empty"
    ELSE IF ~(_confidence < MaxConfidence) THEN "Confidence must be <= 10000"
    ELSE LET recovered == recoverSigner(
                 ethSignedHash(_imageHash, _isReal, _confidence), _signature)
         IN  IF recovered.reason # "" THEN recovered.reason
             ELSE IF recovered.signer # oracleSigner THEN "Invalid oracle signature"
             ELSE ""

\* recordVerification without the didExists modifier
recordVerificationRevert_NoDidCheck(sender, _imageHash, _isReal, _confidence, _signature) ==
    IF _imageHash = Zero THEN "Image hash cannot be empty"
    ELSE IF ~(_confidence <= MaxConfidence) THEN "Confidence must be <= 10000"
    ELSE LET recovered == recoverSigner(
                 ethSignedHash(_imageHash, _isReal, _confidence), _signature)
         IN  IF recovered.reason # "" THEN recovered.reason
             ELSE IF recovered.signer # oracleSigner THEN "Invalid oracle signature"
             ELSE ""

\* recordVerification without the require on the confidence
recordVerificationRevert_NoConfidenceCheck(sender, _imageHash, _isReal, _confidence, _signature) ==
    IF didExists(sender) # "" THEN didExists(sender)
    ELSE IF _imageHash = Zero THEN "Image hash cannot be empty"
    ELSE LET recovered == recoverSigner(
                 ethSignedHash(_imageHash, _isReal, _confidence), _signature)
         IN  IF recovered.reason # "" THEN recovered.reason
             ELSE IF recovered.signer # oracleSigner THEN "Invalid oracle signature"
             ELSE ""

\* recordVerification that accepts a content hash once
recordVerificationRevert_SingleUse(sender, _imageHash, _isReal, _confidence, _signature) ==
    IF didExists(sender) # "" THEN didExists(sender)
    ELSE IF _imageHash = Zero THEN "Image hash cannot be empty"
    ELSE IF ~(_confidence <= MaxConfidence) THEN "Confidence must be <= 10000"
    ELSE IF verificationResults[_imageHash].timestamp > 0 THEN "Already recorded"
    ELSE LET recovered == recoverSigner(
                 ethSignedHash(_imageHash, _isReal, _confidence), _signature)
         IN  IF recovered.reason # "" THEN recovered.reason
             ELSE IF recovered.signer # oracleSigner THEN "Invalid oracle signature"
             ELSE ""

\* recordVerification that checks the signature before the verdict's fields
recordVerificationRevert_SignatureFirst(sender, _imageHash, _isReal, _confidence, _signature) ==
    IF didExists(sender) # "" THEN didExists(sender)
    ELSE LET recovered == recoverSigner(
                 ethSignedHash(_imageHash, _isReal, _confidence), _signature)
         IN  IF recovered.reason # "" THEN recovered.reason
             ELSE IF recovered.signer # oracleSigner THEN "Invalid oracle signature"
             ELSE IF _imageHash = Zero THEN "Image hash cannot be empty"
             ELSE IF ~(_confidence <= MaxConfidence) THEN "Confidence must be <= 10000"
             ELSE ""

recordVerificationRevert(sender, _imageHash, _isReal, _confidence, _signature) ==
    IF didExists(sender) # "" THEN didExists(sender)
    ELSE IF _imageHash = Zero THEN "Image hash cannot be empty"
    ELSE IF ~(_confidence <= MaxConfidence) THEN "Confidence must be <= 10000"
    ELSE LET recovered == recoverSigner(
                 ethSignedHash(_imageHash, _isReal, _confidence), _signature)
         IN  IF recovered.reason # "" THEN recovered.reason
             ELSE IF recovered.signer # oracleSigner THEN "Invalid oracle signature"
             ELSE ""

\* recordVerification that leaves totalVerifications as it was
recordVerification_NoCount(sender, _imageHash, _subjectDid, _isReal, _confidence, _credentialHash, _signature) ==
    LET reason == recordVerificationRevert(sender, _imageHash, _isReal,
                                           _confidence, _signature) IN
    IF reason # "" THEN Revert(reason)
    ELSE /\ LogHasRoom
         /\ verificationResults' = [verificationResults EXCEPT ![_imageHash] =
                [imageHash |-> _imageHash, subjectDid |-> _subjectDid,
                 issuerDid |-> didDocuments[sender].did, isReal |-> _isReal,
                 confidence |-> _confidence, timestamp |-> now,
                 credentialHash |-> _credentialHash]]
         /\ Emit([name |-> "VerificationRecorded", imageHash |-> _imageHash,
                  subjectDid |-> _subjectDid, isReal |-> _isReal,
                  confidence |-> _confidence, timestamp |-> now])
         /\ reverted' = FALSE
         /\ UNCHANGED <<didDocuments, didToAddress, zkProofs, authorizedIssuers,
                        owner, oracleSigner, totalDIDs, totalVerifications, now>>

\* recordVerification that stores the subject DID as the issuer DID
recordVerification_IssuerFromArgs(sender, _imageHash, _subjectDid, _isReal, _confidence, _credentialHash, _signature) ==
    LET reason == recordVerificationRevert(sender, _imageHash, _isReal,
                                           _confidence, _signature) IN
    IF reason # "" THEN Revert(reason)
    ELSE /\ LogHasRoom
         /\ verificationResults' = [verificationResults EXCEPT ![_imageHash] =
                [imageHash |-> _imageHash, subjectDid |-> _subjectDid,
                 issuerDid |-> _subjectDid, isReal |-> _isReal,
                 confidence |-> _confidence, timestamp |-> now,
                 credentialHash |-> _credentialHash]]
         /\ totalVerifications' = totalVerifications + 1
         /\ Emit([name |-> "VerificationRecorded", imageHash |-> _imageHash,
                  subjectDid |-> _subjectDid, isReal |-> _isReal,
                  confidence |-> _confidence, timestamp |-> now])
         /\ reverted' = FALSE
         /\ UNCHANGED <<didDocuments, didToAddress, zkProofs, authorizedIssuers,
                        owner, oracleSigner, totalDIDs, now>>

recordVerification(sender, _imageHash, _subjectDid, _isReal, _confidence, _credentialHash, _signature) ==
    LET reason == recordVerificationRevert(sender, _imageHash, _isReal,
                                           _confidence, _signature) IN
    IF reason # "" THEN Revert(reason)
    ELSE /\ LogHasRoom
         /\ verificationResults' = [verificationResults EXCEPT ![_imageHash] =
                [imageHash |-> _imageHash, subjectDid |-> _subjectDid,
                 issuerDid |-> didDocuments[sender].did, isReal |-> _isReal,
                 confidence |-> _confidence, timestamp |-> now,
                 credentialHash |-> _credentialHash]]
         /\ totalVerifications' = totalVerifications + 1
         /\ Emit([name |-> "VerificationRecorded", imageHash |-> _imageHash,
                  subjectDid |-> _subjectDid, isReal |-> _isReal,
                  confidence |-> _confidence, timestamp |-> now])
         /\ reverted' = FALSE
         /\ UNCHANGED <<didDocuments, didToAddress, zkProofs, authorizedIssuers,
                        owner, oracleSigner, totalDIDs, now>>

\* getVerification (view): the reason it reverts with, and the record it returns
getVerificationRevert(_imageHash) ==
    IF ~(verificationResults[_imageHash].timestamp > 0) THEN "Verification not found"
    ELSE ""

getVerification(_imageHash) == verificationResults[_imageHash]

\* isImageVerified that looks at the confidence of the record
isImageVerified_ByConfidence(_imageHash) ==
    verificationResults[_imageHash].confidence > 0

\* isImageVerified (view)
isImageVerified(_imageHash) == verificationResults[_imageHash].timestamp > 0

\* -------------------------------------------------------------------- admin
setOracleSignerRevert(sender, _newSigner) ==
    IF onlyOwner(sender) # "" THEN onlyOwner(sender)
    ELSE IF _newSigner = Zero THEN "Invalid signer address"
    ELSE ""

setOracleSigner(sender, _newSigner) ==
    LET reason == setOracleSignerRevert(sender, _newSigner) IN
    IF reason # "" THEN Revert(reason)
    ELSE /\ oracleSigner' = _newSigner
         /\ reverted' = FALSE
         /\ UNCHANGED <<didDocuments, didToAddress, verificationResults, zkProofs,
                        authorizedIssuers, owner, totalDIDs, totalVerifications,
                        events, now>>

\* ---------------------------------------------------- ZK proof management
submitZKProofRevert(_imageHash, _proofHash) ==
    IF _imageHash = Zero THEN "Image hash cannot be empty"
    ELSE IF _proofHash = Zero THEN "Proof hash cannot be empty"
    ELSE ""

submitZKProof(_imageHash, _proofHash, _publicInputHash) ==
    LET reason == submitZKProofRevert(_imageHash, _proofHash) IN
    IF reason # "" THEN Revert(reason)
    ELSE /\ LogHasRoom
         /\ zkProofs' = [zkProofs EXCEPT ![_imageHash] =
                [proofHash |-> _proofHash, publicInputHash |-> _publicInputHash,
                 isValid |-> FALSE, timestamp |-> now]]
         /\ Emit([name |-> "ZKProofSubmitted", imageHash |-> _imageHash,
                  proofHash |-> _proofHash, timestamp |-> now])
         /\ reverted' = FALSE
         /\ UNCHANGED <<didDocuments, didToAddress, verificationResults,
                        authorizedIssuers, owner, oracleSigner, totalDIDs,
                        totalVerifications, now>>

\* verifyZKProof (view): the reason it reverts with, and what it returns
verifyZKProofRevert(_imageHash) ==
    IF ~(zkProofs[_imageHash].timestamp > 0) THEN "ZK Proof not found"
    ELSE ""

\* verifyZKProof that returns true for every commitment found
verifyZKProof_AnyFound(_imageHash, _expectedProofHash) ==
    zkProofs[_imageHash].timestamp > 0

verifyZKProof(_imageHash, _expectedProofHash) ==
    zkProofs[_imageHash].proofHash = _expectedProofHash

\* ------------------------------------------------------ issuer authorization
authorizeIssuerRevert(sender, _issuer) ==
    IF onlyOwner(sender) # "" THEN onlyOwner(sender)
    ELSE IF authorizedIssuers[_issuer] THEN "Already authorized"
    ELSE ""

authorizeIssuer(sender, _issuer) ==
    LET reason == authorizeIssuerRevert(sender, _issuer) IN
    IF reason # "" THEN Revert(reason)
    ELSE /\ LogHasRoom
         /\ authorizedIssuers' = [authorizedIssuers EXCEPT ![_issuer] = TRUE]
         /\ Emit([name |-> "IssuerAuthorized", issuer |-> _issuer, timestamp |-> now])
         /\ reverted' = FALSE
         /\ UNCHANGED <<didDocuments, didToAddress, verificationResults, zkProofs,
                        owner, oracleSigner, totalDIDs, totalVerifications, now>>

\* revokeIssuer without the "Cannot revoke owner" require
revokeIssuerRevert_OwnerToo(sender, _issuer) ==
    IF onlyOwner(sender) # "" THEN onlyOwner(sender)
    ELSE IF ~authorizedIssuers[_issuer] THEN "Not authorized"
    ELSE ""

revokeIssuerRevert(sender, _issuer) ==
    IF onlyOwner(sender) # "" THEN onlyOwner(sender)
    ELSE IF ~authorizedIssuers[_issuer] THEN "Not authorized"
    ELSE IF _issuer = owner THEN "Cannot revoke owner"
    ELSE ""

revokeIssuer(sender, _issuer) ==
    LET reason == revokeIssuerRevert(sender, _issuer) IN
    IF reason # "" THEN Revert(reason)
    ELSE /\ LogHasRoom
         /\ authorizedIssuers' = [authorizedIssuers EXCEPT ![_issuer] = FALSE]
         /\ Emit([name |-> "IssuerRevoked", issuer |-> _issuer, timestamp |-> now])
         /\ reverted' = FALSE
         /\ UNCHANGED <<didDocuments, didToAddress, verificationResults, zkProofs,
                        owner, oracleSigner, totalDIDs, totalVerifications, now>>

\* transferOwnership without the "Invalid address" require
transferOwnershipRevert_AllowZero(sender, _newOwner) ==
    IF onlyOwner(sender) # "" THEN onlyOwner(sender)
    ELSE ""

transferOwnershipRevert(sender, _newOwner) ==
    IF onlyOwner(sender) # "" THEN onlyOwner(sender)
    ELSE IF _newOwner = Zero THEN "Invalid address"
    ELSE ""

\* transferOwnership that de-authorizes the outgoing owner last
transferOwnership_RevokeLast(sender, _newOwner) ==
    LET reason == transferOwnershipRevert(sender, _newOwner) IN
    IF reason # "" THEN Revert(reason)
    ELSE /\ authorizedIssuers' = [[authorizedIssuers EXCEPT ![_newOwner] = TRUE]
                                      EXCEPT ![owner] = FALSE]
         /\ owner' = _newOwner
         /\ reverted' = FALSE
         /\ UNCHANGED <<didDocuments, didToAddress, verificationResults, zkProofs,
                        oracleSigner, totalDIDs, totalVerifications, events, now>>

transferOwnership(sender, _newOwner) ==
    LET reason == transferOwnershipRevert(sender, _newOwner) IN
    IF reason # "" THEN Revert(reason)
    ELSE /\ authorizedIssuers' = [[authorizedIssuers EXCEPT ![owner] = FALSE]
                                      EXCEPT ![_newOwner] = TRUE]
         /\ owner' = _newOwner
         /\ reverted' = FALSE
         /\ UNCHANGED <<didDocuments, didToAddress, verificationResults, zkProofs,
                        oracleSigner, totalDIDs, totalVerifications, events, now>>

\* ------------------------------------------------------------ block progress
\* a new block: block.timestamp does not go back
Tick ==
    /\ now < MaxTime
    /\ now' = now + 1
    /\ UNCHANGED <<storage, events, reverted>>

\* ------------------------------------------------------------ upload widget
\* The files a user can choose: two images and a text file.  type is the MIME
\* type, split at the slash.
File ==
    {[name |-> "a.png", type |-> <<"image", "png">>, bytes |-> 1],
     [name |-> "b.jpg", type |-> <<"image", "jpeg">>, bytes |-> 2],
     [name |-> "notes.txt", type |-> <<"text", "plain">>, bytes |-> 3]}

\* null, as a file and as a preview
NoFile == [name |-> "", type |-> <<>>, bytes |-> 0]
NoPreview == <<>>

\* file.type.startsWith('image/')
IsImage(file) == Len(file.type) > 0 /\ file.type[1] = "image"

\* what readAsDataURL yields: data:<type>;base64,<the bytes encoded>
DataURL(file) == <<"data:", file.type, ";base64,", file.bytes>>

\* the component as mounted
Mounted ==
    /\ selectedFile = NoFile
    /\ preview = NoPreview
    /\ dragActive = FALSE
    /\ readers = <<>>
    /\ uploaded = NoFile

\* The drop zone and its input are rendered while there is no preview, the
\* preview section with its two buttons while there is one.
DropZoneShown == preview = NoPreview

handleFile(file) ==
    IF file = NoFile \/ ~IsImage(file)
        THEN UNCHANGED <<selectedFile, readers>>
        ELSE /\ Len(readers) < MaxReaders
             /\ selectedFile' = file
             /\ readers' = Append(readers, file)

handleDrag(type) ==
    /\ DropZoneShown
    /\ dragActive' = IF type \in {"dragenter", "dragover"} THEN TRUE
                     ELSE IF type = "dragleave" THEN FALSE
                     ELSE dragActive
    /\ UNCHANGED <<selectedFile, preview, readers, uploaded>>

handleDrop(file) ==
    /\ DropZoneShown
    /\ dragActive' = FALSE
    /\ handleFile(file)
    /\ UNCHANGED <<preview, uploaded>>

handleChange(file) ==
    /\ DropZoneShown
    /\ handleFile(file)
    /\ UNCHANGED <<preview, dragActive, uploaded>>

\* reader.onload of the i-th FileReader in flight
onload(i) ==
    /\ preview' = DataURL(readers[i])
    /\ readers' = SubSeq(readers, 1, i - 1) \o SubSeq(readers, i + 1, Len(readers))
    /\ UNCHANGED <<selectedFile, dragActive, uploaded>>

handleVerify ==
    /\ ~DropZoneShown
    /\ uploaded' = IF selectedFile # NoFile THEN selectedFile ELSE uploaded
    /\ UNCHANGED <<selectedFile, preview, dragActive, readers>>

clearSelection ==
    /\ ~DropZoneShown
    /\ selectedFile' = NoFile
    /\ preview' = NoPreview
    /\ UNCHANGED <<dragActive, readers, uploaded>>

NextWidget ==
    \/ \E type \in {"dragenter", "dragover", "dragleave"} :
           handleDrag(type) /\ UNCHANGED <<storage, events, now, reverted>>
    \/ \E file \in File \cup {NoFile} :
           handleDrop(file) /\ UNCHANGED <<storage, events, now, reverted>>
    \/ \E file \in File \cup {NoFile} :
           handleChange(file) /\ UNCHANGED <<storage, events, now, reverted>>
    \/ \E i \in 1..Len(readers) :
           onload(i) /\ UNCHANGED <<storage, events, now, reverted>>
    \/ handleVerify /\ UNCHANGED <<storage, events, now, reverted>>
    \/ clearSelection /\ UNCHANGED <<storage, events, now, reverted>>

\* ------------------------------------------------------- transaction inputs
\* A (contentHash, isReal, confidence) triple.
V(h, r, c) == [imageHash |-> h, isReal |-> r, confidence |-> c]

\* recordVerification arguments other than the signature
RecordArgs(t, _subjectDid, _credentialHash) ==
    [verdict |-> t, subjectDid |-> _subjectDid, credentialHash |-> _credentialHash]

\* The transactions submitted are drawn from a sampling: one finite set per
\* argument.  Every sampling holds accepted and rejected values of every
\* argument of every function.
Coarse ==
    [did |-> {"", "did:deepfake:a"},
     registerKey |-> {"", "k1"},
     updateKey |-> {"", "k2"},
     record |-> {RecordArgs(V(1, TRUE, MaxConfidence), "did:deepfake:b", 2),
                 RecordArgs(V(Zero, TRUE, MaxConfidence), "did:deepfake:b", 2),
                 RecordArgs(V(1, TRUE, MaxConfidence + 1), "did:deepfake:b", 2)},
     signature |-> {Sign(k, 1, TRUE, MaxConfidence) : k \in Account}
                   \cup {[Sign(1, 1, TRUE, MaxConfidence) EXCEPT !.rs = NoPoint]},
     zkImage |-> {Zero, 1},
     zkProof |-> {Zero, 1},
     zkInput |-> {Zero},
     address |-> Address,
     logCap |-> ShortLog]

\* A sampling with many inputs stops at a shorter log than MaxEvents.
Within(in) == Len(events') <= in.logCap

NextOn(in) ==
    \/ \E sender \in Account, d \in in.did, k \in in.registerKey :
           registerDID(sender, d, k) /\ Within(in) /\ UNCHANGED widget
    \/ \E sender \in Account, k \in in.updateKey :
           updateDIDPublicKey(sender, k) /\ Within(in) /\ UNCHANGED widget
    \/ \E sender \in Account :
           deactivateDID(sender) /\ Within(in) /\ UNCHANGED widget
    \/ \E sender \in Account, a \in in.record, sig \in in.signature :
           recordVerification(sender, a.verdict.imageHash, a.subjectDid,
                              a.verdict.isReal, a.verdict.confidence,
                              a.credentialHash, sig)
               /\ Within(in) /\ UNCHANGED widget
    \/ \E h \in in.zkImage, ph \in in.zkProof, pi \in in.zkInput :
           submitZKProof(h, ph, pi) /\ Within(in) /\ UNCHANGED widget
    \/ \E sender \in Account, a \in in.address :
           setOracleSigner(sender, a) /\ UNCHANGED widget
    \/ \E sender \in Account, a \in in.address :
           authorizeIssuer(sender, a) /\ Within(in) /\ UNCHANGED widget
    \/ \E sender \in Account, a \in in.address :
           revokeIssuer(sender, a) /\ Within(in) /\ UNCHANGED widget
    \/ \E sender \in Account, a \in in.address :
           transferOwnership(sender, a) /\ UNCHANGED widget
    \/ Tick /\ UNCHANGED widget

\* The registry sampling: two DID strings.
Registry == [Coarse EXCEPT !.did = DidString]

\* The oracle sampling: verdicts at the bounds of the confidence range, signatures
\* of both key holders over the submitted verdicts and over verdicts that differ
\* from a submitted one in exactly one field, and damaged signatures.
VByte == {0, 1, 2, VLow, VHigh, 29}
Damaged(sig) ==
    {[sig EXCEPT !.v = b] : b \in VByte \ {VLow}}
        \cup {[sig EXCEPT !.length = SigLength - 1], [sig EXCEPT !.rs = NoPoint]}
Oracle ==
    [Coarse EXCEPT
        !.record = {RecordArgs(V(1, TRUE, MaxConfidence), "did:deepfake:b", 2),
                    RecordArgs(V(1, TRUE, 0), "", Zero),
                    RecordArgs(V(Zero, TRUE, MaxConfidence), "did:deepfake:b", 2),
                    RecordArgs(V(1, TRUE, MaxConfidence + 1), "did:deepfake:b", 2)},
        !.signature = {Sign(k, t.imageHash, t.isReal, t.confidence) :
                           k \in Account,
                           t \in {V(1, TRUE, MaxConfidence), V(1, TRUE, 0),
                                  V(1, TRUE, MaxConfidence + 1),
                                  V(1, FALSE, MaxConfidence),
                                  V(2, TRUE, MaxConfidence)}}
                      \cup Damaged(Sign(1, 1, TRUE, MaxConfidence))]

\* The deep sampling: one accepted value of every argument, and the full log.
Deep ==
    [did |-> {"did:deepfake:a"},
     registerKey |-> {"k1"},
     updateKey |-> {"k2"},
     record |-> {RecordArgs(V(1, TRUE, MaxConfidence), "did:deepfake:b", 2)},
     signature |-> {Sign(1, 1, TRUE, MaxConfidence)},
     zkImage |-> {1},
     zkProof |-> {1},
     zkInput |-> {Zero},
     address |-> Account,
     logCap |-> MaxEvents]

\* The proof sampling: every hash as image, proof and public input.
Proofs ==
    [Deep EXCEPT !.zkImage = Bytes32, !.zkProof = Bytes32, !.zkInput = {Zero, 1},
                 !.logCap = ShortLog]

\* the contract as deployed, beside the widget as mounted
Deployed == Init /\ Mounted

Next == NextOn(Coarse)
NextDeep == NextOn(Deep)
SpecDeep == Deployed /\ [][NextDeep]_vars
NextProofs == NextOn(Proofs)
SpecProofs == Deployed /\ [][NextProofs]_vars
NextRegistry == NextOn(Registry)
NextOracle == NextOn(Oracle)
SpecRegistry == Deployed /\ [][NextRegistry]_vars
SpecOracle == Deployed /\ [][NextOracle]_vars

Spec == Deployed /\ [][Next]_vars

\* The deployment with account 1 as oracle signer: there, any other signer is
\* the result of a rotation.
InitSignerOne == Deployed /\ oracleSigner = 1
SpecRotation == InitSignerOne /\ [][NextOracle]_vars

\* The widget on its own, beside a contract that nobody calls.
InitWidget == InitSignerOne /\ owner = 1
SpecWidget == InitWidget /\ [][NextWidget]_vars

\* ------------------------------------------------------------ reading the log
LastEvent == events[Len(events)]

CountEvents(kind) == Cardinality({i \in 1..Len(events) : events[i].name = kind})

\* Account a has registered DID string d and has not deactivated since.
Held(a, d) ==
    \E i \in 1..Len(events) :
        /\ events[i].name = "DIDRegistered"
        /\ events[i].owner = a
        /\ events[i].did = d
        /\ \A j \in (i + 1)..Len(events) :
               ~(events[j].name = "DIDDeactivated" /\ events[j].owner = a)

\* recordVerification's preconditions other than the signature
Admissible(sender, t) ==
    /\ didDocuments[sender].isActive
    /\ t.imageHash # Zero
    /\ t.confidence <= MaxConfidence

\* the revert reason of recordVerification for a verdict and a signature
RecordRevert(sender, t, sig) ==
    recordVerificationRevert(sender, t.imageHash, t.isReal, t.confidence, sig)

\* what a key holder signs for a verdict
SignVerdict(k, t) == Sign(k, t.imageHash, t.isReal, t.confidence)

\* the verdicts the oracle sampling submits, and the ones it has signatures for
SubmittedVerdict == {a.verdict : a \in Oracle.record}
SignedVerdict == {V(1, TRUE, MaxConfidence), V(1, TRUE, 0),
                  V(1, TRUE, MaxConfidence + 1), V(1, FALSE, MaxConfidence),
                  V(2, TRUE, MaxConfidence)}

\* ------------------------------------------------------------------- claims

\* C1: DID uniqueness.  While account a holds DID string d (it registered d and
\* has not deactivated since), no other account holds d, and every registerDID
\* of d by another account reverts, whatever the key.
C1_DidUniqueness ==
    \A a \in Account, d \in DidString :
        Held(a, d) =>
            \A b \in Account \ {a} :
                /\ ~Held(b, d)
                /\ \A k \in KeyString : registerDIDRevert(b, d, k) # ""

\* A holds d, B has no document of its own, and B's transaction has just reverted:
\* the only thing in B's way is that d is taken.
C1_Witness ==
    \E a \in Account, d \in DidString \ {""} :
        \E b \in Account \ {a} :
            /\ Held(a, d)
            /\ ~didDocuments[b].isActive
            /\ registerDIDRevert(b, d, "k1") = "DID already taken"
            /\ reverted

\* C2: one active DID per account.  An account whose document is active cannot
\* register: every registerDID by it reverts with "DID already registered", also
\* for a DID string nobody holds.
C2_OneActiveDidPerAccount ==
    \A a \in Account :
        didDocuments[a].isActive =>
            \A d \in DidString, k \in KeyString :
                registerDIDRevert(a, d, k) = "DID already registered"

\* An account with an active document, a free DID string, and a reverted call.
C2_Witness ==
    \E a \in Account :
        /\ didDocuments[a].isActive
        /\ \E d \in DidString \ {""} : didToAddress[d] = Zero
        /\ reverted

\* C3: authentication correctness.  In every reachable state, a recordVerification
\* by an account with an active DID, a non-zero hash and a confidence in range goes
\* through if and only if recoverSigner returns an address and that address is the
\* oracleSigner of that state.
C3_AuthenticationCorrectness ==
    \A sender \in Account, t \in SubmittedVerdict, sig \in Oracle.signature :
        Admissible(sender, t) =>
            LET recovered == recoverSigner(
                    ethSignedHash(t.imageHash, t.isReal, t.confidence), sig)
            IN  (RecordRevert(sender, t, sig) = "")
                    <=> (recovered.reason = "" /\ recovered.signer = oracleSigner)

\* A verdict has just been recorded under an oracle signer that holds a key, and
\* the same caller has signatures at hand that are accepted and that are refused.
C3_Witness ==
    /\ Len(events) > 0
    /\ LastEvent.name = "VerificationRecorded"
    /\ ~reverted
    /\ oracleSigner \in Account
    /\ \E sender \in Account, t \in SubmittedVerdict :
           /\ Admissible(sender, t)
           /\ \E sig \in Oracle.signature : RecordRevert(sender, t, sig) = ""
           /\ \E sig \in Oracle.signature :
                  RecordRevert(sender, t, sig) = "Invalid oracle signature"

\* C4: signature binding.  A signature the oracle made for verdict t, presented
\* with a verdict that differs from t in the hash, the label or the confidence,
\* makes recordVerification revert.
C4_SignatureBinding ==
    \A sender \in Account, t \in SignedVerdict, u \in SubmittedVerdict :
        (oracleSigner \in Account /\ u # t) =>
            RecordRevert(sender, u, SignVerdict(oracleSigner, t)) # ""

\* The oracle's signature for (1, TRUE, 10000) was accepted for that verdict, and
\* the caller's next call has reverted; the same signature is refused for
\* (1, TRUE, 0).
C4_Witness ==
    /\ oracleSigner \in Account
    /\ verificationResults[1].confidence = MaxConfidence
    /\ verificationResults[1].timestamp > 0
    /\ reverted
    /\ \E sender \in Account :
           /\ RecordRevert(sender, V(1, TRUE, MaxConfidence),
                           SignVerdict(oracleSigner, V(1, TRUE, MaxConfidence))) = ""
           /\ RecordRevert(sender, V(1, TRUE, 0),
                           SignVerdict(oracleSigner, V(1, TRUE, MaxConfidence)))
                  = "Invalid oracle signature"

\* C5: first-writer-wins.  Once a record exists for a content hash, no step
\* changes any field of it.
C5_FirstWriterWins ==
    [][\A h \in Bytes32 :
           verificationResults[h].timestamp > 0 =>
               verificationResults'[h] = verificationResults[h]]_vars

\* C6: an unrecoverable signature never counts.  Whatever the oracle signer, a
\* recordVerification whose signature recovers to address(0) reverts.
C6_ZeroAddressNeverValid ==
    \A sender \in Account, t \in SubmittedVerdict, sig \in Oracle.signature :
        LET recovered == recoverSigner(
                ethSignedHash(t.imageHash, t.isReal, t.confidence), sig)
        IN  (recovered.reason = "" /\ recovered.signer = Zero) =>
                RecordRevert(sender, t, sig) # ""

\* C7: oracle rotation.  In every state the signatures of the key holders other
\* than the current oracle signer are refused as "Invalid oracle signature" and
\* those of the current one are accepted; and on the step that replaces signer S1
\* by S2, S1's signature for a verdict was accepted before the step, is refused
\* after it, and S2's is accepted after it.
C7_CurrentSignerOnly ==
    \A sender \in Account, t \in SubmittedVerdict, k \in Account :
        Admissible(sender, t) =>
            RecordRevert(sender, t, SignVerdict(k, t))
                = IF k = oracleSigner THEN "" ELSE "Invalid oracle signature"

C7_RotationStep ==
    \A s1 \in Account, s2 \in Account :
        (s1 # s2 /\ oracleSigner = s1 /\ oracleSigner' = s2) =>
            \A sender \in Account, t \in SubmittedVerdict :
                Admissible(sender, t) =>
                    /\ RecordRevert(sender, t, SignVerdict(s1, t)) = ""
                    /\ RecordRevert(sender, t, SignVerdict(s1, t))'
                           = "Invalid oracle signature"
                    /\ RecordRevert(sender, t, SignVerdict(s2, t))' = ""

C7_OracleRotation == [](C7_CurrentSignerOnly) /\ [][C7_RotationStep]_vars

\* Deployed with signer 1, rotated away from it, a record stored, an active
\* caller, and a call refused since: signer 1's signature no longer passes.
C7_Witness ==
    /\ oracleSigner # 1
    /\ reverted
    /\ \E h \in Bytes32 : verificationResults[h].timestamp > 0
    /\ \E sender \in Account :
           /\ Admissible(sender, V(1, TRUE, MaxConfidence))
           /\ RecordRevert(sender, V(1, TRUE, MaxConfidence),
                           SignVerdict(1, V(1, TRUE, MaxConfidence)))
                  = "Invalid oracle signature"

\* C8: confidence bound.  For a caller with an active DID, a non-zero hash and the
\* current oracle's signature over the submitted verdict, recordVerification
\* reverts for every confidence above 10000 and goes through for every confidence
\* from 0 to 10000.
ConfidenceProbe == {0, 1, 9200, 9300, MaxConfidence - 1, MaxConfidence,
                    MaxConfidence + 1, MaxConfidence + 2, 2 * MaxConfidence}

C8_ConfidenceBound ==
    \A sender \in Account, h \in Bytes32 \ {Zero}, r \in BOOLEAN, c \in ConfidenceProbe :
        (didDocuments[sender].isActive /\ oracleSigner \in Account) =>
            LET reason == RecordRevert(sender, V(h, r, c),
                                       SignVerdict(oracleSigner, V(h, r, c)))
            IN  IF c > MaxConfidence
                    THEN reason = "Confidence must be <= 10000"
                    ELSE reason = ""

\* Records at both ends of the range have been stored (10000, then 0), and a call
\* has reverted after them.
C8_Witness ==
    /\ \E i \in 1..Len(events) :
           events[i].name = "VerificationRecorded" /\ events[i].confidence = MaxConfidence
    /\ LastEvent.name = "VerificationRecorded"
    /\ LastEvent.confidence = 0
    /\ reverted

\* C9: counter monotonicity.  totalDIDs is the number of registrations that have
\* gone through and totalVerifications the number of recordings that have gone
\* through (each one is in the log); nothing else moves a counter.
C9_CountersCountSuccesses ==
    /\ totalDIDs = CountEvents("DIDRegistered")
    /\ totalVerifications = CountEvents("VerificationRecorded")

\* A registration, a recording and a deactivation have gone through, and a call
\* has reverted after them.
C9_Witness ==
    /\ totalDIDs = 1
    /\ totalVerifications = 1
    /\ CountEvents("DIDDeactivated") = 1
    /\ reverted

\* C10: no partial effects.  A transaction that reverts leaves the storage (DID
\* documents, reverse index, records, commitments, issuer set, owner, oracle
\* signer, both counters) and the event log as they were.
C10_NoPartialEffects == [][reverted' => UNCHANGED <<storage, events>>]_vars

\* A call has reverted in a registry that already holds a document and a record.
C10_Witness ==
    /\ reverted
    /\ totalDIDs > 0
    /\ totalVerifications > 0

\* ----------------------------------------------------------- reading the log
\* Account a was authorized by an authorizeIssuer call.
WasAuthorized(a) ==
    \E i \in 1..Len(events) :
        events[i].name = "IssuerAuthorized" /\ events[i].issuer = a

OnlyOwnerReason == "Only owner can call this function"

\* C11: the administrator role and the authorization set never diverge.  In every
\* reachable state the current owner is in the authorized-issuer set.
C11_OwnerIsAuthorized == authorizedIssuers[owner]

\* The owner is an account that an authorizeIssuer call once authorized: at that
\* time it was not the owner, so the ownership was transferred to an already
\* authorized account.  An attempt to revoke it is refused.
C11_Witness ==
    /\ WasAuthorized(owner)
    /\ authorizedIssuers[owner]
    /\ revokeIssuerRevert(owner, owner) = "Cannot revoke owner"

\* C12: administrator-only operations.  In every state, authorizeIssuer,
\* revokeIssuer, transferOwnership and setOracleSigner revert with the only-owner
\* reason for every caller other than the owner and every argument, and a reverted
\* step changes nothing; on a step that moves the ownership from o to n, after the
\* step o's calls revert with that reason and n's pass the owner check.
C12_NonOwnerRefused ==
    \A sender \in Account \ {owner}, a \in Address :
        /\ authorizeIssuerRevert(sender, a) = OnlyOwnerReason
        /\ revokeIssuerRevert(sender, a) = OnlyOwnerReason
        /\ transferOwnershipRevert(sender, a) = OnlyOwnerReason
        /\ setOracleSignerRevert(sender, a) = OnlyOwnerReason

C12_OwnerAdmitted ==
    \A a \in Address :
        /\ authorizeIssuerRevert(owner, a) # OnlyOwnerReason
        /\ revokeIssuerRevert(owner, a) # OnlyOwnerReason
        /\ transferOwnershipRevert(owner, a) # OnlyOwnerReason
        /\ setOracleSignerRevert(owner, a) # OnlyOwnerReason
        /\ a # Zero => /\ transferOwnershipRevert(owner, a) = ""
                       /\ setOracleSignerRevert(owner, a) = ""

C12_TransferStep ==
    \A o \in Account, n \in Account :
        (o # n /\ owner = o /\ owner' = n) =>
            /\ C12_OwnerAdmitted
            /\ \A a \in Address :
                   /\ authorizeIssuerRevert(o, a)' = OnlyOwnerReason
                   /\ revokeIssuerRevert(o, a)' = OnlyOwnerReason
                   /\ transferOwnershipRevert(o, a)' = OnlyOwnerReason
                   /\ setOracleSignerRevert(o, a)' = OnlyOwnerReason
                   /\ authorizeIssuerRevert(n, a)' # OnlyOwnerReason
                   /\ revokeIssuerRevert(n, a)' # OnlyOwnerReason
                   /\ a # Zero => /\ transferOwnershipRevert(n, a)' = ""
                                  /\ setOracleSignerRevert(n, a)' = ""

C12_AdminOnly ==
    /\ [](C12_NonOwnerRefused /\ C12_OwnerAdmitted)
    /\ [][C12_TransferStep /\ (reverted' => UNCHANGED <<storage, events>>)]_vars

\* An account that an authorizeIssuer call authorized is no longer authorized
\* though nothing was revoked: it became the owner and transferred the ownership
\* away.  A call has been refused since, and that account's admin calls are.
C12_Witness ==
    \E o \in Account \ {owner} :
        /\ WasAuthorized(o)
        /\ ~authorizedIssuers[o]
        /\ CountEvents("IssuerRevoked") = 0
        /\ reverted
        /\ setOracleSignerRevert(o, o) = OnlyOwnerReason
        /\ setOracleSignerRevert(owner, o) = ""

NoActiveDidReason == "DID does not exist or is deactivated"

\* Account a has deactivated a DID.
HasDeactivated(a) ==
    \E i \in 1..Len(events) :
        events[i].name = "DIDDeactivated" /\ events[i].owner = a

\* C13: recordVerification needs an active DID.  A call by an account without an
\* active document (never registered, or deactivated and not registered again)
\* reverts for want of a DID, whatever the verdict and the signature, the current
\* oracle's signature over a valid verdict included.
C13_ActiveDidRequired ==
    \A sender \in Account, t \in SubmittedVerdict, sig \in Oracle.signature :
        ~didDocuments[sender].isActive =>
            RecordRevert(sender, t, sig) = NoActiveDidReason

\* One account has deactivated its DID, another never registered, a record is in
\* the ledger, and a call has reverted: the oracle's signature over a valid verdict
\* does not get either of them past the modifier.
C13_Witness ==
    /\ oracleSigner \in Account
    /\ reverted
    /\ \E h \in Bytes32 : verificationResults[h].timestamp > 0
    /\ \E a \in Account, b \in Account :
           /\ a # b
           /\ HasDeactivated(a)
           /\ ~didDocuments[a].isActive
           /\ didDocuments[b] = NoDocument
           /\ \A c \in {a, b} :
                  RecordRevert(c, V(1, TRUE, MaxConfidence),
                               SignVerdict(oracleSigner, V(1, TRUE, MaxConfidence)))
                      = NoActiveDidReason

\* C14: the issuer role gates submission.  A recordVerification by an account that
\* is not in the authorized-issuer set reverts.
C14_IssuerRoleGates ==
    \A sender \in Account, t \in SubmittedVerdict, sig \in Oracle.signature :
        ~authorizedIssuers[sender] => RecordRevert(sender, t, sig) # ""

\* C15: no impersonation of the issuer.  Whoever calls recordVerification with
\* whatever arguments, if the call goes through (the ledger is written) then the
\* record stored for the hash carries the did of the caller's own document as of
\* the call and the submitted hash, subject DID, label, confidence and credential
\* hash.
C15_IssuerIsCaller ==
    [][<<verificationResults, totalVerifications>>'
           # <<verificationResults, totalVerifications>> =>
       \A sender \in Account, a \in Oracle.record, sig \in Oracle.signature :
           (/\ recordVerification(sender, a.verdict.imageHash, a.subjectDid,
                                  a.verdict.isReal, a.verdict.confidence,
                                  a.credentialHash, sig)
            /\ ~reverted') =>
               LET stored == verificationResults'[a.verdict.imageHash] IN
               /\ didDocuments[sender].isActive
               /\ stored.issuerDid = didDocuments[sender].did
               /\ stored.imageHash = a.verdict.imageHash
               /\ stored.subjectDid = a.subjectDid
               /\ stored.isReal = a.verdict.isReal
               /\ stored.confidence = a.verdict.confidence
               /\ stored.credentialHash = a.credentialHash]_vars

\* The latest transaction recorded a verdict about the subject "did:deepfake:b",
\* and the record names the caller's DID "did:deepfake:a" as the issuer.
C15_Witness ==
    /\ ~reverted
    /\ Len(events) > 0
    /\ LastEvent.name = "VerificationRecorded"
    /\ verificationResults[1].subjectDid = "did:deepfake:b"
    /\ verificationResults[1].issuerDid = "did:deepfake:a"
    /\ \E sender \in Account :
           didDocuments[sender].isActive /\ didDocuments[sender].did = "did:deepfake:a"

\* C16: index consistency.  In every reachable state the reverse index maps d to
\* account a exactly when a's document is active with did d; so two active
\* documents never carry the same DID string, an entry never points at an inactive
\* document, and resolveDID never reverts with "DID is deactivated".
C16_IndexConsistency ==
    /\ \A d \in DidString :
           /\ didToAddress[d] \in Address
           /\ \A a \in Account :
                  (didToAddress[d] = a)
                      <=> (didDocuments[a].isActive /\ didDocuments[a].did = d)
           /\ resolveDIDRevert(d) # "DID is deactivated"
    /\ \A a \in Account, b \in Account :
           (a # b /\ didDocuments[a].isActive /\ didDocuments[b].isActive) =>
               didDocuments[a].did # didDocuments[b].did

\* Both accounts hold an active DID, each indexed, and a call has reverted (an
\* attempt at a DID that is taken, among others).
C16_Witness ==
    /\ \A a \in Account :
           /\ didDocuments[a].isActive
           /\ didToAddress[didDocuments[a].did] = a
    /\ reverted
    /\ \E a \in Account, b \in Account :
           a # b /\ registerDIDRevert(a, didDocuments[b].did, "k1") # ""

\* C17: deactivation frees the identifier.  deactivateDID reverts for a caller
\* without an active document; the step on which account a deactivates its DID d
\* leaves d unbound in the reverse index, and after it registerDID(d, k) with a
\* non-empty k goes through for every account without an active document, a
\* itself included.
C17_InactiveCannotDeactivate ==
    \A a \in Account :
        ~didDocuments[a].isActive => deactivateDIDRevert(a) = NoActiveDidReason

C17_DeactivationStep ==
    \A a \in Account, d \in DidString :
        (/\ didDocuments[a].isActive
         /\ didDocuments[a].did = d
         /\ ~didDocuments'[a].isActive) =>
            /\ didToAddress[d] = a
            /\ didToAddress'[d] = Zero
            /\ \A b \in Account, k \in KeyString \ {""} :
                   ~didDocuments'[b].isActive => registerDIDRevert(b, d, k)' = ""

C17_DeactivationFrees ==
    [](C17_InactiveCannotDeactivate) /\ [][C17_DeactivationStep]_vars

\* Account a registered d and deactivated it, and then another account registered
\* the same d, which it now holds.
C17_Witness ==
    \E a \in Account, b \in Account, d \in DidString :
        /\ a # b
        /\ \E i \in 1..Len(events), j \in 1..Len(events) :
               /\ i < j
               /\ events[i].name = "DIDDeactivated"
               /\ events[i].owner = a
               /\ events[i].did = d
               /\ events[j].name = "DIDRegistered"
               /\ events[j].owner = b
               /\ events[j].did = d
        /\ didToAddress[d] = b
        /\ ~didDocuments[a].isActive

\* C18: historical document retention.  Once an account's document is
\* deactivated, its owner, did, publicKeyBase58 and createdAt stay as they are and
\* it stays inactive, whatever happens next.
C18_DocumentRetained ==
    [][\A a \in Account :
           (didDocuments[a].owner = a /\ ~didDocuments[a].isActive) =>
               /\ ~didDocuments'[a].isActive
               /\ didDocuments'[a].owner = didDocuments[a].owner
               /\ didDocuments'[a].did = didDocuments[a].did
               /\ didDocuments'[a].publicKeyBase58 = didDocuments[a].publicKeyBase58
               /\ didDocuments'[a].createdAt = didDocuments[a].createdAt]_vars

\* C19: resolveDID.  resolveDID(d) goes through exactly when some account holds d
\* (it registered d and has not deactivated since), and then returns that
\* account's document: active, with did d and that owner.  It reverts for the
\* empty string.
C19_ResolveDID ==
    /\ \A d \in DidString :
           LET holders == {a \in Account : Held(a, d)} IN
           /\ (resolveDIDRevert(d) = "") <=> (holders # {})
           /\ \A a \in holders :
                  /\ resolveDID(d) = didDocuments[a]
                  /\ resolveDID(d).isActive
                  /\ resolveDID(d).did = d
                  /\ resolveDID(d).owner = a
    /\ resolveDIDRevert("") = "DID not found"

\* One DID resolves to its holder, who is not the contract's owner; another was
\* registered and deactivated and is not found; a third was never registered.
C19_Witness ==
    \E a \in Account, b \in Account, d \in DidString, e \in DidString :
        /\ a # b
        /\ a # owner
        /\ Held(a, d)
        /\ resolveDIDRevert(d) = ""
        /\ resolveDID(d).owner = a
        /\ HasDeactivated(b)
        /\ didDocuments[b].did = e
        /\ ~didDocuments[b].isActive
        /\ resolveDIDRevert(e) = "DID not found"

\* A recordVerification for h has gone through; the latest one in the log.
Recorded(h) ==
    \E i \in 1..Len(events) :
        events[i].name = "VerificationRecorded" /\ events[i].imageHash = h

LastRecorded(h) ==
    LET at == {i \in 1..Len(events) :
                   events[i].name = "VerificationRecorded" /\ events[i].imageHash = h}
    IN  events[CHOOSE i \in at : \A j \in at : j <= i]

\* C20: existence queries.  getVerification(h) reverts with "Verification not
\* found" exactly when no recordVerification for h has gone through, and otherwise
\* returns the record of the latest one; isImageVerified(h) is a boolean that is
\* true exactly when getVerification(h) goes through.
C20_ExistenceQueries ==
    \A h \in Bytes32 :
        /\ (getVerificationRevert(h) = "Verification not found") <=> ~Recorded(h)
        /\ Recorded(h) =>
               /\ getVerificationRevert(h) = ""
               /\ getVerification(h).imageHash = h
               /\ getVerification(h).subjectDid = LastRecorded(h).subjectDid
               /\ getVerification(h).isReal = LastRecorded(h).isReal
               /\ getVerification(h).confidence = LastRecorded(h).confidence
               /\ getVerification(h).timestamp = LastRecorded(h).timestamp
        /\ isImageVerified(h) \in BOOLEAN
        /\ isImageVerified(h) <=> (getVerificationRevert(h) = "")

\* A record with confidence 0 is stored for hash 1 and none for hash 2.
C20_Witness ==
    /\ Recorded(1)
    /\ getVerification(1).confidence = 0
    /\ isImageVerified(1)
    /\ ~Recorded(2)
    /\ ~isImageVerified(2)
    /\ getVerificationRevert(2) = "Verification not found"

\* C21: durability of attestations.  Once isImageVerified(h) is true it is true
\* after every step: no operation deletes a verification record.
C21_RecordsDurable ==
    [][\A h \in Bytes32 : isImageVerified(h) => isImageVerified(h)']_vars

\* A record was stored, its issuer has deactivated the DID since, a proof was
\* submitted and the oracle signer (whose signature it took) has been replaced:
\* the image still counts as verified.
C21_Witness ==
    /\ isImageVerified(1)
    /\ oracleSigner # 1
    /\ CountEvents("ZKProofSubmitted") > 0
    /\ \E i \in 1..Len(events), j \in 1..Len(events) :
           /\ i < j
           /\ events[i].name = "VerificationRecorded"
           /\ events[j].name = "DIDDeactivated"
           /\ events[j].did = verificationResults[1].issuerDid

\* C22: record well-formedness.  In every reachable state a stored record
\* (timestamp > 0) has a confidence of at most 10000, a non-zero content hash that
\* is the key it is stored under, and a non-empty issuerDid; a key for which
\* nothing was recorded has timestamp 0.
C22_RecordWellFormed ==
    \A h \in Bytes32 :
        /\ verificationResults[h].timestamp > 0 =>
               /\ verificationResults[h].confidence <= MaxConfidence
               /\ verificationResults[h].imageHash = h
               /\ h # Zero
               /\ verificationResults[h].issuerDid # ""
        /\ ~Recorded(h) => verificationResults[h].timestamp = 0

\* A record at the top of the confidence range is stored under hash 1, nothing
\* under the other keys, and the latest call (one of those with the zero hash or
\* with confidence 10001, among others) has reverted.
C22_Witness ==
    /\ verificationResults[1].timestamp > 0
    /\ verificationResults[1].confidence = MaxConfidence
    /\ verificationResults[Zero] = NoResult
    /\ verificationResults[2] = NoResult
    /\ reverted
    /\ \E sender \in Account :
           /\ RecordRevert(sender, V(1, TRUE, MaxConfidence + 1),
                           SignVerdict(oracleSigner, V(1, TRUE, MaxConfidence + 1)))
                  = "Confidence must be <= 10000"
           /\ RecordRevert(sender, V(Zero, TRUE, MaxConfidence),
                           SignVerdict(oracleSigner, V(1, TRUE, MaxConfidence)))
                  = "Image hash cannot be empty"

\* C23: issuer set operations.  Called by the owner, authorizeIssuer(x) reverts
\* exactly when x is authorized and revokeIssuer(x) exactly when x is not
\* authorized or is the owner; a call of either that goes through is the owner's,
\* flips the authorization of x alone, and leaves the owner, the oracle signer,
\* the DID state, the records, the commitments and the counters as they were.
C23_IssuerCallsRefused ==
    \A x \in Address :
        /\ authorizeIssuerRevert(owner, x)
               = IF authorizedIssuers[x] THEN "Already authorized" ELSE ""
        /\ (revokeIssuerRevert(owner, x) # "")
               <=> (~authorizedIssuers[x] \/ x = owner)
        /\ revokeIssuerRevert(owner, owner) = "Cannot revoke owner"
        /\ ~authorizedIssuers[x] => revokeIssuerRevert(owner, x) = "Not authorized"

C23_IssuerCallStep ==
    events' # events =>
        \A sender \in Account, x \in Address :
            /\ (authorizeIssuer(sender, x) /\ ~reverted') =>
                   /\ sender = owner
                   /\ ~authorizedIssuers[x]
                   /\ authorizedIssuers' = [authorizedIssuers EXCEPT ![x] = TRUE]
                   /\ UNCHANGED <<didDocuments, didToAddress, verificationResults,
                                  zkProofs, owner, oracleSigner, totalDIDs,
                                  totalVerifications>>
            /\ (revokeIssuer(sender, x) /\ ~reverted') =>
                   /\ sender = owner
                   /\ authorizedIssuers[x]
                   /\ x # owner
                   /\ authorizedIssuers' = [authorizedIssuers EXCEPT ![x] = FALSE]
                   /\ UNCHANGED <<didDocuments, didToAddress, verificationResults,
                                  zkProofs, owner, oracleSigner, totalDIDs,
                                  totalVerifications>>

C23_IssuerSetOperations ==
    [](C23_IssuerCallsRefused) /\ [][C23_IssuerCallStep]_vars

\* An account was authorized and then revoked, a DID is registered, and the
\* latest call has reverted.
C23_Witness ==
    \E x \in Account \ {owner} :
        /\ \E i \in 1..Len(events), j \in 1..Len(events) :
               /\ i < j
               /\ events[i].name = "IssuerAuthorized"
               /\ events[i].issuer = x
               /\ events[j].name = "IssuerRevoked"
               /\ events[j].issuer = x
        /\ ~authorizedIssuers[x]
        /\ totalDIDs > 0
        /\ reverted

\* C24: self-sovereignty frame.  Whatever function an account c calls with
\* whatever arguments, the DID document of every other account a, and the reverse
\* index entry of a's active DID, are after the call as they were before it.
Untouched(c) ==
    \A a \in Account \ {c} :
        /\ didDocuments'[a] = didDocuments[a]
        /\ didDocuments[a].isActive =>
               didToAddress'[didDocuments[a].did] = didToAddress[didDocuments[a].did]

C24_SelfSovereignty ==
    [][<<didDocuments, didToAddress>>' # <<didDocuments, didToAddress>> =>
       \A c \in Account :
           /\ \A d \in Registry.did, k \in Registry.registerKey :
                  registerDID(c, d, k) => Untouched(c)
           /\ \A k \in Registry.updateKey : updateDIDPublicKey(c, k) => Untouched(c)
           /\ deactivateDID(c) => Untouched(c)
           /\ \A a \in Registry.record, sig \in Registry.signature :
                  recordVerification(c, a.verdict.imageHash, a.subjectDid,
                                     a.verdict.isReal, a.verdict.confidence,
                                     a.credentialHash, sig) => Untouched(c)
           /\ \A x \in Registry.address :
                  /\ setOracleSigner(c, x) => Untouched(c)
                  /\ authorizeIssuer(c, x) => Untouched(c)
                  /\ revokeIssuer(c, x) => Untouched(c)
                  /\ transferOwnership(c, x) => Untouched(c)
           /\ \A h \in Registry.zkImage, ph \in Registry.zkProof, pi \in Registry.zkInput :
                  submitZKProof(h, ph, pi) => Untouched(c)]_vars

\* An account that is neither the contract's owner nor the oracle signer holds a
\* DID registered at time 1 and untouched since; the other account, which is both,
\* has registered, updated or deactivated since, and its latest call has reverted.
C24_Witness ==
    \E a \in Account, c \in Account :
        /\ a # c
        /\ c = owner
        /\ c = oracleSigner
        /\ didDocuments[a].isActive
        /\ didDocuments[a].updatedAt = 1
        /\ didToAddress[didDocuments[a].did] = a
        /\ now > 1
        /\ didDocuments[c].updatedAt > 1
        /\ reverted

\* The latest IssuerAuthorized/IssuerRevoked event about account a is an
\* IssuerAuthorized.
LastSaysAuthorized(a) ==
    \E i \in 1..Len(events) :
        /\ events[i].name = "IssuerAuthorized"
        /\ events[i].issuer = a
        /\ \A j \in (i + 1)..Len(events) :
               ~(events[j].name \in {"IssuerAuthorized", "IssuerRevoked"}
                   /\ events[j].issuer = a)

\* C25: the event log is the history of issuer authorization.  In every reachable
\* state an account is authorized exactly when the latest authorization event
\* about it in the log is an IssuerAuthorized.
C25_LogTellsAuthorization ==
    \A a \in Address : authorizedIssuers[a] <=> LastSaysAuthorized(a)

\* C26: registration contract.  registerDID(d, k) by c goes through exactly when
\* c has no active document, d is bound to no account, and d and k are non-empty;
\* a call that goes through leaves c with the document (c, d, k, active, created
\* and updated now), binds d to c in the index, adds one to totalDIDs and changes
\* nothing else.
C26_RegisterAdmitted ==
    \A c \in Account, d \in DidString, k \in KeyString :
        registerDIDRevert(c, d, k) = ""
            <=> /\ ~didDocuments[c].isActive
                /\ didToAddress[d] = Zero
                /\ d # ""
                /\ k # ""

C26_RegisterStep ==
    totalDIDs' # totalDIDs =>
        \A c \in Account, d \in DidString, k \in KeyString :
            (registerDID(c, d, k) /\ ~reverted') =>
                /\ didDocuments' = [didDocuments EXCEPT ![c] =
                       [owner |-> c, did |-> d, publicKeyBase58 |-> k,
                        isActive |-> TRUE, createdAt |-> now, updatedAt |-> now]]
                /\ didToAddress' = [didToAddress EXCEPT ![d] = c]
                /\ totalDIDs' = totalDIDs + 1
                /\ UNCHANGED <<verificationResults, zkProofs, authorizedIssuers,
                               owner, oracleSigner, totalVerifications>>

C26_RegistrationContract ==
    [](C26_RegisterAdmitted) /\ [][C26_RegisterStep]_vars

\* An account has registered one DID string at time 1, deactivated, and
\* registered the other at time 2; a later call has reverted.
C26_Witness ==
    \E c \in Account :
        /\ didDocuments[c].isActive
        /\ didDocuments[c].did = "did:deepfake:b"
        /\ didDocuments[c].createdAt = 2
        /\ \E i \in 1..Len(events) :
               /\ events[i].name = "DIDRegistered"
               /\ events[i].owner = c
               /\ events[i].did = "did:deepfake:a"
               /\ events[i].timestamp = 1
        /\ totalDIDs = 2
        /\ reverted

\* C27: key rotation frame.  updateDIDPublicKey(k) by c reverts exactly when c has
\* no active document or k is empty; a call that goes through replaces the key of
\* c's document, sets its updatedAt to now, and leaves the document's owner, did,
\* isActive and createdAt, the index, the other documents, the counters, the
\* records and the administration as they were.
C27_UpdateRefused ==
    \A c \in Account, k \in KeyString :
        updateDIDPublicKeyRevert(c, k) # ""
            <=> (~didDocuments[c].isActive \/ k = "")

C27_UpdateStep ==
    events' # events =>
        \A c \in Account, k \in KeyString :
            (updateDIDPublicKey(c, k) /\ ~reverted') =>
                /\ didDocuments' = [didDocuments EXCEPT
                       ![c].publicKeyBase58 = k, ![c].updatedAt = now]
                /\ UNCHANGED <<didToAddress, verificationResults, zkProofs,
                               authorizedIssuers, owner, oracleSigner, totalDIDs,
                               totalVerifications>>

C27_KeyRotationFrame ==
    [](C27_UpdateRefused) /\ [][C27_UpdateStep]_vars

\* An account registered at time 1 has rotated its key at time 2 while the other
\* account holds a document too, and a later call has reverted.
C27_Witness ==
    \E c \in Account, a \in Account :
        /\ a # c
        /\ didDocuments[c].isActive
        /\ didDocuments[c].publicKeyBase58 = "k2"
        /\ didDocuments[c].createdAt = 1
        /\ didDocuments[c].updatedAt = 2
        /\ didDocuments[a].isActive
        /\ CountEvents("DIDUpdated") = 1
        /\ reverted

\* C28: ownership transfer.  The owner's transferOwnership(n) reverts exactly
\* when n is the zero address; a call that goes through is the owner's and makes n
\* the owner and an authorized issuer, and, when n is not the outgoing owner o,
\* leaves o unauthorized and not the owner, the authorization of every other
\* address being unchanged; the owner is never the zero address.
C28_OwnerNonZero ==
    /\ owner # Zero
    /\ \A n \in Address : transferOwnershipRevert(owner, n) # "" <=> n = Zero

C28_TransferStep ==
    \A sender \in Account, n \in Address :
        (transferOwnership(sender, n) /\ ~reverted') =>
            /\ sender = owner
            /\ n # Zero
            /\ owner' = n
            /\ authorizedIssuers'[n]
            /\ n # owner => (~authorizedIssuers'[owner] /\ owner' # sender)
            /\ \A x \in Address \ {owner, n} :
                   authorizedIssuers'[x] = authorizedIssuers[x]
            /\ UNCHANGED <<didDocuments, didToAddress, verificationResults,
                           zkProofs, oracleSigner, totalDIDs, totalVerifications,
                           events>>

C28_OwnershipTransfer ==
    [](C28_OwnerNonZero) /\ [][C28_TransferStep]_vars

\* Ownership has passed from an account the log shows being an authorized
\* issuer's administrator to the other account: the former owner authorized the
\* zero address, is itself no longer authorized, and its latest call has reverted
\* for not being the owner's.
C28_Witness ==
    \E o \in Account :
        /\ owner # o
        /\ authorizedIssuers[owner]
        /\ ~authorizedIssuers[o]
        /\ authorizedIssuers[Zero]
        /\ totalDIDs > 0
        /\ reverted
        /\ transferOwnershipRevert(o, o) = "Only owner can call this function"

\* C29: document ownership and timestamps.  The owner field of an account's
\* document is that account from its first registration on and never changes;
\* createdAt <= updatedAt in every document; and no step, whether registration,
\* update, deactivation or registration anew, lowers createdAt or updatedAt.
C29_OwnerAndOrder ==
    \A a \in Account :
        /\ didDocuments[a] = NoDocument \/ didDocuments[a].owner = a
        /\ (\E i \in 1..Len(events) :
                events[i].name = "DIDRegistered" /\ events[i].owner = a)
               => didDocuments[a].owner = a
        /\ didDocuments[a].createdAt <= didDocuments[a].updatedAt

C29_StampsStep ==
    \A a \in Account :
        /\ didDocuments[a].owner # Zero =>
               didDocuments'[a].owner = didDocuments[a].owner
        /\ didDocuments'[a].createdAt >= didDocuments[a].createdAt
        /\ didDocuments'[a].updatedAt >= didDocuments[a].updatedAt

C29_OwnerAndTimestamps ==
    [](C29_OwnerAndOrder) /\ [][C29_StampsStep]_vars

\* An account registered at time 1, deactivated, and registered anew at time 2.
C29_Witness ==
    \E a \in Account :
        /\ didDocuments[a].isActive
        /\ didDocuments[a].createdAt = 2
        /\ didDocuments[a].updatedAt = 2
        /\ HasDeactivated(a)
        /\ \E i \in 1..Len(events) :
               /\ events[i].name = "DIDRegistered"
               /\ events[i].owner = a
               /\ events[i].timestamp = 1

\* the current oracle's signature over a verdict, at every length around 65 and
\* with every value of the byte v
SigLengthProbe == {0, SigLength - 1, SigLength, SigLength + 1}
RawV == 0..ByteMax
RecoverProbe(len, v) ==
    recoverSigner(ethSignedHash(1, TRUE, MaxConfidence),
                  [Sign(oracleSigner, 1, TRUE, MaxConfidence)
                       EXCEPT !.length = len, !.v = v])

\* C30: signature format checks.  recoverSigner rejects every signature whose
\* length is not 65 bytes; for a signature of 65 bytes it accepts the raw values
\* 0, 1, 27 and 28 of v and no other, the addition of 27 to a v below 27 never
\* leaving the range of a byte; and what it recovers is what ecrecover yields for
\* the normalised v.
C30_SignatureFormat ==
    /\ \A len \in SigLengthProbe \ {SigLength}, v \in VByte :
           RecoverProbe(len, v).reason = "Invalid signature length"
    /\ \A v \in RawV :
           LET out == RecoverProbe(SigLength, v) IN
           /\ out.reason = "" <=> v \in {0, 1, VLow, VHigh}
           /\ out.reason \in {"", "Invalid signature v value"}
           /\ out.reason = "" =>
                  out.signer = ecrecover(ethSignedHash(1, TRUE, MaxConfidence),
                                         IF v < VLow THEN v + VLow ELSE v,
                                         Sign(oracleSigner, 1, TRUE,
                                              MaxConfidence).rs)

\* A verdict signed by the oracle is recorded, the latest call has reverted, and
\* the holder of a DID is admitted with the oracle's signature under v = 0 and
\* refused with it under v = 2 and with it cut to 64 bytes.
C30_Witness ==
    /\ verificationResults[1].timestamp > 0
    /\ reverted
    /\ \E sender \in Account :
           LET t == V(1, TRUE, MaxConfidence)
               sig == SignVerdict(oracleSigner, t)
           IN  /\ oracleSigner # Zero
               /\ RecordRevert(sender, t, [sig EXCEPT !.v = 0]) = ""
               /\ RecordRevert(sender, t, [sig EXCEPT !.v = 2])
                      = "Invalid signature v value"
               /\ RecordRevert(sender, t, [sig EXCEPT !.length = SigLength - 1])
                      = "Invalid signature length"
\* the reasons recordVerification fails with, by class
AuthorizationReason == {"DID does not exist or is deactivated"}
ValidationReason == {"Image hash cannot be empty", "Confidence must be <= 10000"}
AuthenticationReason ==
    {"Invalid signature length", "Invalid signature v value", "Invalid oracle signature"}

\* the signature has not the form recoverSigner accepts, or who it recovers to
\* for the verdict is not the oracle signer
BadSignature(t, sig) ==
    \/ sig.length # SigLength
    \/ sig.v \notin {0, 1, VLow, VHigh}
    \/ ecrecover(ethSignedHash(t.imageHash, t.isReal, t.confidence),
                 IF sig.v < VLow THEN sig.v + VLow ELSE sig.v, sig.rs) # oracleSigner

ValidFields(t) == t.imageHash # Zero /\ t.confidence <= MaxConfidence

\* C31: error classes of recordVerification.  A call by an account without an
\* active DID fails with the authorization reason; otherwise a call with a zero
\* hash or a confidence above 10000 fails with a validation reason; otherwise a
\* call with a malformed signature or one of another signer fails with an
\* authentication reason, and with none of the other classes; the three classes
\* share no reason.
C31_ErrorClasses ==
    /\ AuthorizationReason \cap ValidationReason = {}
    /\ AuthenticationReason \cap (ValidationReason \cup AuthorizationReason) = {}
    /\ \A sender \in Account, t \in SubmittedVerdict, sig \in Oracle.signature :
           LET reason == RecordRevert(sender, t, sig) IN
           /\ reason \in AuthorizationReason \cup ValidationReason
                             \cup AuthenticationReason \cup {""}
           /\ ~didDocuments[sender].isActive => reason \in AuthorizationReason
           /\ (didDocuments[sender].isActive /\ ~ValidFields(t))
                  => reason \in ValidationReason
           /\ (didDocuments[sender].isActive /\ ValidFields(t) /\ BadSignature(t, sig))
                  => reason \in AuthenticationReason
           /\ (didDocuments[sender].isActive /\ ValidFields(t) /\ ~BadSignature(t, sig))
                  => reason = ""

\* One account holds a DID and the other does not, a verdict is recorded, the
\* latest call has reverted, and for the holder a call of each class is at hand: a
\* zero hash with a damaged signature, and valid fields with a signature cut
\* short, with a wrong v and of the account that is not the oracle.
C31_Witness ==
    \E sender \in Account, other \in Account :
        LET t == V(1, TRUE, MaxConfidence)
            sig == SignVerdict(oracleSigner, t)
        IN  /\ oracleSigner \in Account
            /\ other # oracleSigner
            /\ didDocuments[sender].isActive
            /\ ~didDocuments[other].isActive
            /\ verificationResults[1].timestamp > 0
            /\ reverted
            /\ RecordRevert(other, t, sig) \in AuthorizationReason
            /\ RecordRevert(sender, V(Zero, TRUE, MaxConfidence),
                            [sig EXCEPT !.rs = NoPoint]) \in ValidationReason
            /\ RecordRevert(sender, t, [sig EXCEPT !.length = SigLength - 1])
                   = "Invalid signature length"
            /\ RecordRevert(sender, t, [sig EXCEPT !.v = 29])
                   = "Invalid signature v value"
            /\ RecordRevert(sender, t, SignVerdict(other, t))
                   = "Invalid oracle signature"

\* C32: submitZKProof refuses zero hashes.  No commitment is stored under the
\* zero content hash, with a zero proof hash or with a zero public input hash.
C32_NoZeroHashCommitted ==
    \A h \in Bytes32 :
        zkProofs[h].timestamp > 0 =>
            /\ h # Zero
            /\ zkProofs[h].proofHash # Zero
            /\ zkProofs[h].publicInputHash # Zero

\* A commitment for content hash h is in the log, and the latest one.
Submitted(h) ==
    \E i \in 1..Len(events) :
        events[i].name = "ZKProofSubmitted" /\ events[i].imageHash = h

LastSubmitted(h) ==
    LET at == {i \in 1..Len(events) :
                   events[i].name = "ZKProofSubmitted" /\ events[i].imageHash = h}
    IN  events[CHOOSE i \in at : \A j \in at : j <= i]

\* C33: verifyZKProof.  verifyZKProof(h, e) reverts exactly when no commitment
\* was ever submitted for h; otherwise it returns true exactly when the proof
\* hash submitted last for h is e; and the isValid flag of every commitment is
\* false.
C33_VerifyZKProof ==
    \A h \in Bytes32 :
        /\ verifyZKProofRevert(h) # "" <=> ~Submitted(h)
        /\ Submitted(h) =>
               \A e \in Bytes32 :
                   verifyZKProof(h, e) <=> LastSubmitted(h).proofHash = e
        /\ ~zkProofs[h].isValid

\* Two different proof hashes were submitted for one content hash, none for
\* another, and the latest call has reverted.
C33_Witness ==
    \E h \in Bytes32, g \in Bytes32 :
        /\ \E i \in 1..Len(events), j \in 1..Len(events) :
               /\ i < j
               /\ events[i].name = "ZKProofSubmitted"
               /\ events[j].name = "ZKProofSubmitted"
               /\ events[i].imageHash = h
               /\ events[j].imageHash = h
               /\ events[i].proofHash # events[j].proofHash
        /\ verifyZKProof(h, LastSubmitted(h).proofHash)
        /\ verifyZKProofRevert(g) = "ZK Proof not found"
        /\ reverted

\* C34: audit log step rule.  No step removes or alters an event of the log; a
\* call that reverts appends nothing; and every registerDID, updateDIDPublicKey,
\* deactivateDID, recordVerification, submitZKProof, authorizeIssuer and
\* revokeIssuer that goes through appends exactly one event, of its own kind,
\* carrying the caller and its DID string, the record stored, the commitment
\* stored, or the issuer.
Appends(e) == events' = Append(events, e)

C34_AuditStep ==
    /\ Len(events') >= Len(events)
    /\ SubSeq(events', 1, Len(events)) = events
    /\ reverted' => events' = events
    /\ ~reverted' =>
           /\ \A c \in Account :
                  /\ \A d \in Coarse.did, k \in Coarse.registerKey :
                         registerDID(c, d, k) =>
                             /\ Appends([name |-> "DIDRegistered", owner |-> c,
                                         did |-> d, timestamp |-> now])
                             /\ didDocuments'[c].did = d
                  /\ \A k \in Coarse.updateKey :
                         updateDIDPublicKey(c, k) =>
                             Appends([name |-> "DIDUpdated", owner |-> c,
                                      did |-> didDocuments'[c].did, timestamp |-> now])
                  /\ deactivateDID(c) =>
                         Appends([name |-> "DIDDeactivated", owner |-> c,
                                  did |-> didDocuments'[c].did, timestamp |-> now])
                  /\ \A a \in Coarse.record, sig \in Coarse.signature :
                         recordVerification(c, a.verdict.imageHash, a.subjectDid,
                                            a.verdict.isReal, a.verdict.confidence,
                                            a.credentialHash, sig) =>
                             LET r == verificationResults'[a.verdict.imageHash] IN
                             /\ Appends([name |-> "VerificationRecorded",
                                         imageHash |-> r.imageHash,
                                         subjectDid |-> r.subjectDid,
                                         isReal |-> r.isReal,
                                         confidence |-> r.confidence,
                                         timestamp |-> r.timestamp])
                             /\ r.imageHash = a.verdict.imageHash
                  /\ \A x \in Coarse.address :
                         /\ authorizeIssuer(c, x) =>
                                Appends([name |-> "IssuerAuthorized", issuer |-> x,
                                         timestamp |-> now])
                         /\ revokeIssuer(c, x) =>
                                Appends([name |-> "IssuerRevoked", issuer |-> x,
                                         timestamp |-> now])
           /\ \A h \in Coarse.zkImage, ph \in Coarse.zkProof, pi \in Coarse.zkInput :
                  submitZKProof(h, ph, pi) =>
                      Appends([name |-> "ZKProofSubmitted", imageHash |-> h,
                               proofHash |-> zkProofs'[h].proofHash,
                               timestamp |-> now])

C34_AuditLog == [][C34_AuditStep]_vars

\* The log holds a registration, a recording and a deactivation, in this order,
\* and the latest call has reverted.
C34_Witness ==
    /\ Len(events) = 3
    /\ events[1].name = "DIDRegistered"
    /\ events[2].name = "VerificationRecorded"
    /\ events[3].name = "DIDDeactivated"
    /\ events[3].owner = events[1].owner
    /\ events[3].timestamp > events[1].timestamp
    /\ reverted

\* C35: ongoing availability.  In every reachable state, whatever calls have
\* failed before: an account without an active document can register every
\* non-empty DID string bound to no account; an account with an active document
\* can update its key, deactivate, and record a valid verdict signed by the oracle;
\* and the owner can set the oracle signer, authorize every address not
\* authorized, revoke every authorized address but itself and hand ownership to
\* every non-zero address.
C35_Available ==
    /\ \A a \in Account :
           /\ ~didDocuments[a].isActive =>
                  \A d \in DidString \ {""}, k \in KeyString \ {""} :
                      didToAddress[d] = Zero => registerDIDRevert(a, d, k) = ""
           /\ didDocuments[a].isActive =>
                  /\ \A k \in KeyString \ {""} : updateDIDPublicKeyRevert(a, k) = ""
                  /\ deactivateDIDRevert(a) = ""
                  /\ oracleSigner \in Account =>
                         \A t \in {V(1, TRUE, MaxConfidence), V(2, FALSE, 0)} :
                             RecordRevert(a, t, SignVerdict(oracleSigner, t)) = ""
    /\ owner \in Account
    /\ \A x \in Address :
           /\ x # Zero => setOracleSignerRevert(owner, x) = ""
           /\ x # Zero => transferOwnershipRevert(owner, x) = ""
           /\ ~authorizedIssuers[x] => authorizeIssuerRevert(owner, x) = ""
           /\ (authorizedIssuers[x] /\ x # owner) => revokeIssuerRevert(owner, x) = ""

\* After a failed call: one account has deactivated and holds no active document,
\* the other holds one, and the DID string the first gave up is unbound.
C35_Witness ==
    \E a \in Account, b \in Account :
        /\ HasDeactivated(a)
        /\ ~didDocuments[a].isActive
        /\ didToAddress[didDocuments[a].did] = Zero
        /\ didDocuments[b].isActive
        /\ oracleSigner \in Account
        /\ reverted

\* C36: the oracle signer is a real account.  oracleSigner is not the zero
\* address in any reachable state.
C36_OracleSignerNonZero == oracleSigner # Zero

\* the holders of an active DID
ActiveHolder == {a \in Account : didDocuments[a].isActive}

\* verdicts and signatures relayed: a valid and an invalid verdict, the signature
\* of each key holder over the valid one, and the first with v = 0
RelayVerdict == {V(1, TRUE, MaxConfidence), V(1, TRUE, MaxConfidence + 1)}
RelaySignature ==
    {Sign(k, 1, TRUE, MaxConfidence) : k \in Account}
        \cup {[Sign(1, 1, TRUE, MaxConfidence) EXCEPT !.v = 0]}

\* C37: a relayed verdict is bound neither to the relayer nor to the subject.
\* In every state, for a verdict and a signature, recordVerification is admitted
\* for one holder of an active DID exactly when it is for every other, and, when
\* admitted, the call can be made with every subject DID and credential hash; and
\* across every step that leaves the oracle signer as it was, the recording of the
\* verdict itself included, a verdict and signature admitted before are admitted
\* after for every holder of an active DID.
C37_AnyRelayer ==
    \A t \in RelayVerdict, sig \in RelaySignature :
        /\ \A c1 \in ActiveHolder, c2 \in ActiveHolder :
               RecordRevert(c1, t, sig) = RecordRevert(c2, t, sig)
        /\ \A c \in ActiveHolder :
               (RecordRevert(c, t, sig) = "" /\ LogHasRoom) =>
                   \A a \in {RecordArgs(t, "", Zero), RecordArgs(t, "did:deepfake:a", 1)} :
                       ENABLED (recordVerification(c, t.imageHash, a.subjectDid,
                                                   t.isReal, t.confidence,
                                                   a.credentialHash, sig)
                                    /\ ~reverted')

C37_ReplayStep ==
    (<<storage, now>>' # <<storage, now>> /\ oracleSigner' = oracleSigner) =>
        \A t \in RelayVerdict, sig \in RelaySignature :
            (\E c \in ActiveHolder : RecordRevert(c, t, sig) = "") =>
                \A c \in Account :
                    didDocuments'[c].isActive => RecordRevert(c, t, sig)' = ""

C37_RelayedVerdict == [](C37_AnyRelayer) /\ [][C37_ReplayStep]_vars

\* Both accounts hold an active DID, one of them is the oracle signer, a verdict
\* is recorded, and the signature it was recorded under is still admitted for
\* both, while that of the other account is refused for both.
C37_Witness ==
    LET t == V(1, TRUE, MaxConfidence) IN
    /\ ActiveHolder = Account
    /\ oracleSigner \in Account
    /\ verificationResults[1].timestamp > 0
    /\ verificationResults[1].confidence = MaxConfidence
    /\ \A c \in Account :
           /\ RecordRevert(c, t, SignVerdict(oracleSigner, t)) = ""
           /\ \A k \in Account \ {oracleSigner} :
                  RecordRevert(c, t, SignVerdict(k, t)) = "Invalid oracle signature"

\* who held DID string d when the latest record for h was made: the owner of the
\* last registration of d before the recording
Submitter(h) ==
    LET at == CHOOSE i \in 1..Len(events) :
                  /\ events[i].name = "VerificationRecorded"
                  /\ events[i].imageHash = h
                  /\ \A j \in (i + 1)..Len(events) :
                         ~(events[j].name = "VerificationRecorded"
                             /\ events[j].imageHash = h)
        reg == CHOOSE i \in 1..at :
                  /\ events[i].name = "DIDRegistered"
                  /\ events[i].did = verificationResults[h].issuerDid
                  /\ \A j \in (i + 1)..at :
                         ~(events[j].name = "DIDRegistered"
                             /\ events[j].did = verificationResults[h].issuerDid)
    IN  events[reg].owner

\* C38: the issuer of record stays attributable.  For every stored record,
\* whenever resolveDID of its issuerDid succeeds, the document returned is owned by
\* the account that submitted the record.
C38_IssuerAttributable ==
    \A h \in Bytes32 :
        (Recorded(h) /\ resolveDIDRevert(verificationResults[h].issuerDid) = "") =>
            resolveDID(verificationResults[h].issuerDid).owner = Submitter(h)

\* C39: counters bound the live state.  The accounts with an active document
\* are at most totalDIDs, the content hashes with a record at most
\* totalVerifications, and no step, a deactivation included, lowers totalDIDs.
C39_Bounds ==
    /\ Cardinality(ActiveHolder) <= totalDIDs
    /\ Cardinality({h \in Bytes32 : isImageVerified(h)}) <= totalVerifications

C39_CountersBoundLive ==
    [](C39_Bounds) /\ [][totalDIDs' >= totalDIDs]_vars

\* An account has deactivated and holds no active document while the other holds
\* one, a hash was recorded twice, and the counters exceed the live numbers.
C39_Witness ==
    /\ \E a \in Account : HasDeactivated(a) /\ ~didDocuments[a].isActive
    /\ Cardinality(ActiveHolder) < totalDIDs
    /\ CountEvents("DIDDeactivated") > 0
    /\ totalVerifications > 0
    /\ isImageVerified(1)

\* C40: upload widget consistency.  Whenever the widget shows a preview, a file
\* is selected and the preview is the data URL of that file.
C40_PreviewShowsSelected ==
    preview # NoPreview =>
        (selectedFile # NoFile /\ preview = DataURL(selectedFile))

=============================================================================
